---- MODULE Spec2Model ----
(***************************************************************************)
(* The Brain compiler's driver (src/src/main.rs) and code generator        *)
(* (src/src/codegen.rs) as a state machine.  One process compiles one      *)
(* file and one CodeGenerator object lowers one Program: the state is the  *)
(* generator's fields, the program it was handed, the position of the      *)
(* driver and of `generate` in its passes, and what the process has done   *)
(* to the outside.  The AST is a tree of records tagged by `k`             *)
(* with the field names of crate::parser::AstNode; an Option is a sequence *)
(* of length 0 or 1.  An emitted line of IR is a record (opcode, defined   *)
(* name, operands) tagged with the gen_node arm that emitted it.           *)
(***************************************************************************)
EXTENDS Integers, Sequences, FiniteSets, TLC

VARIABLES
    ast,        \* the Program handed to generate: a sequence of top-level items
    cg,         \* the CodeGenerator object (codegen.rs:4-22)
    reachable,  \* generate's local `reachable` (codegen.rs:273)
    item,       \* index of the next top-level item of the loop at codegen.rs:292
    ir,         \* the String generate returns (codegen.rs:312), None until then
    pc,         \* the stage of compile_file, then the pass of generate, about to run
    drv,        \* the driver process: the .ll file, the clang run, stderr, exit status
    vm          \* a run of the emitted main: position, registers, memory, output

vars == <<ast, cg, reachable, item, ir, pc, drv, vm>>

-----------------------------------------------------------------------------
(* Bounds of the model                                                     *)

MaxArrayLen == 2    \* array literals have at most this many elements
NumSeeds == 2       \* HashMap iteration orders tried per iteration
MaxSize == 3        \* statements in a function body, nested ones included

-----------------------------------------------------------------------------
(* Generic helpers                                                         *)

None == << >>
Some(x) == <<x>>
IsSome(o) == Len(o) > 0
Unwrap(o) == o[1]

Range(s) == {s[i] : i \in DOMAIN s}

RECURSIVE Flatten(_)
Flatten(ss) == IF ss = << >> THEN << >> ELSE Head(ss) \o Flatten(Tail(ss))

RECURSIVE SetToSeq(_)
SetToSeq(S) ==
    IF S = {} THEN << >>
    ELSE LET x == CHOOSE y \in S : TRUE IN <<x>> \o SetToSeq(S \ {x})

EmptyMap == [x \in {} |-> TRUE]
Insert(m, key, val) == (key :> val) @@ m
ContainsKey(m, key) == key \in DOMAIN m

-----------------------------------------------------------------------------
(* AST constructors: crate::parser::AstNode as used by codegen.rs          *)

Number(n) == [k |-> "Number", n |-> n]
Boolean(b) == [k |-> "Boolean", b |-> b]
Character(c) == [k |-> "Character", c |-> c]
StringLit(s) == [k |-> "StringLit", s |-> s]
Identifier(name) == [k |-> "Identifier", name |-> name]
BinaryOp(op, left, right) == [k |-> "BinaryOp", op |-> op, left |-> left, right |-> right]
UnaryOp(op, operand) == [k |-> "UnaryOp", op |-> op, operand |-> operand]
Call(name, args) == [k |-> "Call", name |-> name, args |-> args]
MethodCall(object, method, args) ==
    [k |-> "MethodCall", object |-> object, method |-> method, args |-> args]
MemberAccess(object, field) == [k |-> "MemberAccess", object |-> object, field |-> field]
StructInit(name, fields) == [k |-> "StructInit", name |-> name, fields |-> fields]
EnumValue(enum_name, variant, value) ==
    [k |-> "EnumValue", enum_name |-> enum_name, variant |-> variant, value |-> value]
ArrayLit(elems) == [k |-> "ArrayLit", elems |-> elems]
Index(array, index) == [k |-> "Index", array |-> array, index |-> index]
Reference(e) == [k |-> "Reference", e |-> e]
LetBinding(name, value) == [k |-> "LetBinding", name |-> name, value |-> value]
Assignment(name, value) == [k |-> "Assignment", name |-> name, value |-> value]
ArrayAssignment(array, index, value) ==
    [k |-> "ArrayAssignment", array |-> array, index |-> index, value |-> value]
If(condition, then_block, else_block) ==
    [k |-> "If", condition |-> condition, then_block |-> then_block,
     else_block |-> else_block]
While(condition, body) == [k |-> "While", condition |-> condition, body |-> body]
For(variable, iterator, body) ==
    [k |-> "For", variable |-> variable, iterator |-> iterator, body |-> body]
Match(value, arms) == [k |-> "Match", value |-> value, arms |-> arms]
Block(stmts) == [k |-> "Block", stmts |-> stmts]
Return(value) == [k |-> "Return", value |-> value]
Break == [k |-> "Break"]
Continue == [k |-> "Continue"]
ExpressionStatement(e) == [k |-> "ExpressionStatement", e |-> e]
FunctionDef(name, params, body, return_type) ==
    [k |-> "FunctionDef", name |-> name, params |-> params, body |-> body,
     return_type |-> return_type]
StructDef(name, fields) == [k |-> "StructDef", name |-> name, fields |-> fields]
EnumDef(name, variants) == [k |-> "EnumDef", name |-> name, variants |-> variants]
Import == [k |-> "Import"]

Parameter(name, param_type, is_reference, is_mutable) ==
    [name |-> name, param_type |-> param_type, is_reference |-> is_reference,
     is_mutable |-> is_mutable]
Field(name, field_type) == [name |-> name, field_type |-> field_type]
FieldInit(name, value) == [name |-> name, value |-> value]
MatchArm(pattern, body) == [pattern |-> pattern, body |-> body]

EnumPattern(enum_name, variant, binding) ==
    [p |-> "EnumPattern", enum_name |-> enum_name, variant |-> variant,
     binding |-> binding]
NumberPattern(n) == [p |-> "NumberPattern", n |-> n]
StringPattern(s) == [p |-> "StringPattern", s |-> s]
IdentifierPattern(name) == [p |-> "Identifier", name |-> name]
Wildcard == [p |-> "Wildcard"]

-----------------------------------------------------------------------------
(* Type names.  A type is the string the parser hands over; the prefixes   *)
(* strip_ref_prefix looks for are recognised over the type names below.    *)

ValueTypes == {"int", "bool", "char", "string", "Vec", "void", "enum", "array", "P", "Q"}

\* the sized-array type names "[N; int]", and `starts_with('[')` over them
ArrayTypeName(n) == "[" \o ToString(n) \o "; int]"
StartsWithBracket(t) == \E n \in 0..MaxArrayLen : t = ArrayTypeName(n)

\* the size `split(';').nth(1)...parse::<usize>()` reads out of a sized-array name
ArraySizeOf(t) == CHOOSE n \in 0..MaxArrayLen : t = ArrayTypeName(n)

\* the type names a reference prefix is put in front of
InnerTypes == ValueTypes \cup { ArrayTypeName(n) : n \in 0..MaxArrayLen }

\* strip_ref_prefix (codegen.rs:2389-2397): (is_ref, is_mut, inner)
StripRefPrefix(ty) ==
    IF \E t \in InnerTypes : ty = "&mut " \o t
    THEN <<TRUE, TRUE, CHOOSE t \in InnerTypes : ty = "&mut " \o t>>
    ELSE IF \E t \in InnerTypes : ty = "&" \o t
    THEN <<TRUE, FALSE, CHOOSE t \in InnerTypes : ty = "&" \o t>>
    ELSE <<FALSE, FALSE, ty>>

-----------------------------------------------------------------------------
(* EscapeAnalysis (codegen.rs:48-218)                                      *)

\* mark_escaping: the names it inserts into `escaping`
RECURSIVE MarkEscaping(_)
MarkEscaping(node) ==
    IF node.k = "Identifier" THEN {node.name}
    ELSE IF node.k = "Reference" THEN MarkEscaping(node.e)
    ELSE {}

RECURSIVE RoughType(_)
RoughType(node) ==
    CASE node.k = "StringLit" -> "string"
      [] node.k = "Identifier" -> "unknown"
      [] node.k = "BinaryOp" -> RoughType(node.left)
      [] OTHER -> ""

IsHeapType(t) == t \in {"string", "Vec", "unknown"}

SafeBuiltins ==
    {"print", "println", "print_int", "println_int", "print_bool", "println_bool",
     "print_char", "println_char", "write_file", "read_file", "vec_len", "vec_get",
     "vec_push", "vec_set", "int_to_string", "len"}

\* visit: the names one traversal of `node` inserts into `escaping`
RECURSIVE EaVisit(_)
EaVisit(node) ==
    CASE node.k = "Return" ->
            IF IsSome(node.value)
            THEN MarkEscaping(Unwrap(node.value)) \cup EaVisit(Unwrap(node.value))
            ELSE {}
      [] node.k = "Call" ->
            UNION { (IF arg.k = "Reference" THEN {}
                     ELSE IF node.name \notin SafeBuiltins /\ IsHeapType(RoughType(arg))
                          THEN MarkEscaping(arg)
                          ELSE {})
                    \cup EaVisit(arg) : arg \in Range(node.args) }
      [] node.k = "LetBinding" -> EaVisit(node.value)
      [] node.k = "Assignment" -> EaVisit(node.value)
      [] node.k = "Block" -> UNION { EaVisit(s) : s \in Range(node.stmts) }
      [] node.k = "If" ->
            EaVisit(node.condition) \cup EaVisit(node.then_block)
            \cup (IF IsSome(node.else_block) THEN EaVisit(Unwrap(node.else_block)) ELSE {})
      [] node.k = "While" -> EaVisit(node.condition) \cup EaVisit(node.body)
      [] node.k = "For" -> EaVisit(node.iterator) \cup EaVisit(node.body)
      [] node.k = "BinaryOp" -> EaVisit(node.left) \cup EaVisit(node.right)
      [] node.k = "UnaryOp" -> EaVisit(node.operand)
      [] node.k = "ExpressionStatement" -> EaVisit(node.e)
      [] node.k = "Match" ->
            EaVisit(node.value) \cup UNION { EaVisit(a.body) : a \in Range(node.arms) }
      [] node.k = "ArrayLit" -> UNION { EaVisit(e) : e \in Range(node.elems) }
      [] node.k = "StructInit" -> UNION { EaVisit(f.value) : f \in Range(node.fields) }
      [] node.k = "Index" -> EaVisit(node.array) \cup EaVisit(node.index)
      [] node.k = "Reference" -> EaVisit(node.e)
      [] node.k = "MemberAccess" -> EaVisit(node.object)
      [] node.k = "MethodCall" ->
            EaVisit(node.object) \cup UNION { EaVisit(a) : a \in Range(node.args) }
      [] OTHER -> {}

\* visit_body: by-value parameters of pointer shape always escape
EaParams(params) ==
    { p.name : p \in { q \in Range(params) :
          /\ ~StripRefPrefix(q.param_type)[1]
          /\ ~q.is_reference
          /\ \/ q.param_type \in {"string", "Vec"}
             \/ (q.param_type \notin {"int", "bool", "char"} /\ q.param_type # "") } }

\* analyze
EscapeAnalyze(params, body) == EaParams(params) \cup EaVisit(body)

-----------------------------------------------------------------------------
(* Reachability (codegen.rs:315-425)                                       *)

\* collect_calls: the names it pushes onto the queue, in push order
RECURSIVE CollectCalls(_)
CollectCallsSeq(nodes) == Flatten([i \in DOMAIN nodes |-> CollectCalls(nodes[i])])

CollectCalls(node) ==
    CASE node.k = "Call" -> <<node.name>> \o CollectCallsSeq(node.args)
      [] node.k = "Block" -> CollectCallsSeq(node.stmts)
      [] node.k = "FunctionDef" -> CollectCalls(node.body)
      [] node.k = "LetBinding" -> CollectCalls(node.value)
      [] node.k = "Assignment" -> CollectCalls(node.value)
      [] node.k = "ArrayAssignment" -> CollectCalls(node.index) \o CollectCalls(node.value)
      [] node.k = "If" ->
            CollectCalls(node.condition) \o CollectCalls(node.then_block)
            \o (IF IsSome(node.else_block) THEN CollectCalls(Unwrap(node.else_block))
                ELSE << >>)
      [] node.k = "While" -> CollectCalls(node.condition) \o CollectCalls(node.body)
      [] node.k = "For" -> CollectCalls(node.iterator) \o CollectCalls(node.body)
      [] node.k = "Return" ->
            IF IsSome(node.value) THEN CollectCalls(Unwrap(node.value)) ELSE << >>
      [] node.k = "BinaryOp" -> CollectCalls(node.left) \o CollectCalls(node.right)
      [] node.k = "UnaryOp" -> CollectCalls(node.operand)
      [] node.k = "ExpressionStatement" -> CollectCalls(node.e)
      [] node.k = "Match" ->
            CollectCalls(node.value)
            \o Flatten([i \in DOMAIN node.arms |-> CollectCalls(node.arms[i].body)])
      [] node.k = "ArrayLit" -> CollectCallsSeq(node.elems)
      [] node.k = "StructInit" ->
            Flatten([i \in DOMAIN node.fields |-> CollectCalls(node.fields[i].value)])
      [] node.k = "Index" -> CollectCalls(node.array) \o CollectCalls(node.index)
      [] node.k = "Reference" -> CollectCalls(node.e)
      [] node.k = "EnumValue" ->
            IF IsSome(node.value) THEN CollectCalls(Unwrap(node.value)) ELSE << >>
      [] node.k = "MethodCall" -> CollectCalls(node.object) \o CollectCallsSeq(node.args)
      [] node.k = "MemberAccess" -> CollectCalls(node.object)
      [] OTHER -> << >>

\* fn_bodies: name -> body of the FunctionDef items (a later item replaces an earlier)
FnBodies(nodes) ==
    LET names == { nodes[i].name : i \in { j \in DOMAIN nodes : nodes[j].k = "FunctionDef" } }
    IN [n \in names |->
          LET last == CHOOSE i \in DOMAIN nodes :
                        /\ nodes[i].k = "FunctionDef" /\ nodes[i].name = n
                        /\ \A j \in DOMAIN nodes :
                              (nodes[j].k = "FunctionDef" /\ nodes[j].name = n) => j <= i
          IN nodes[last].body]

\* the worklist loop of collect_reachable (queue.pop takes the last element)
RECURSIVE ReachLoop(_, _, _)
ReachLoop(queue, reach, fn_bodies) ==
    IF queue = << >> THEN reach
    ELSE LET current == queue[Len(queue)]
             rest == SubSeq(queue, 1, Len(queue) - 1)
         IN IF current \in reach THEN ReachLoop(rest, reach, fn_bodies)
            ELSE ReachLoop(
                    IF current \in DOMAIN fn_bodies
                    THEN rest \o CollectCalls(fn_bodies[current]) ELSE rest,
                    reach \cup {current}, fn_bodies)

\* a collect_reachable that stops at the calls of main
CollectReachableShallow(nodes) ==
    {"main"} \cup (IF "main" \in DOMAIN FnBodies(nodes)
                   THEN Range(CollectCalls(FnBodies(nodes)["main"])) ELSE {})

CollectReachable(nodes) == ReachLoop(<<"main">>, {}, FnBodies(nodes))

-----------------------------------------------------------------------------
(* Purity inference (codegen.rs:2261-2387)                                 *)

RECURSIVE BodyContainsAdd(_)
BodyContainsAdd(node) ==
    CASE node.k = "BinaryOp" ->
            IF node.op = "Add" THEN TRUE
            ELSE BodyContainsAdd(node.left) \/ BodyContainsAdd(node.right)
      [] node.k = "Block" -> \E s \in Range(node.stmts) : BodyContainsAdd(s)
      [] node.k = "Return" -> IsSome(node.value) /\ BodyContainsAdd(Unwrap(node.value))
      [] node.k = "LetBinding" -> BodyContainsAdd(node.value)
      [] node.k = "If" ->
            \/ BodyContainsAdd(node.condition)
            \/ BodyContainsAdd(node.then_block)
            \/ (IsSome(node.else_block) /\ BodyContainsAdd(Unwrap(node.else_block)))
      [] node.k = "Call" -> \E a \in Range(node.args) : BodyContainsAdd(a)
      [] node.k = "ExpressionStatement" -> BodyContainsAdd(node.e)
      [] OTHER -> FALSE

ImpureBuiltins ==
    {"print", "println", "print_int", "println_int", "print_bool", "println_bool",
     "print_char", "println_char", "read_file", "write_file", "vec_push", "vec_set",
     "send", "recv", "spawn"}

RECURSIVE BodyIsPure(_)
BodyIsPure(node) ==
    CASE node.k \in {"Assignment", "ArrayAssignment"} -> FALSE
      [] node.k = "Call" ->
            node.name \notin ImpureBuiltins /\ \A a \in Range(node.args) : BodyIsPure(a)
      [] node.k = "Block" -> \A s \in Range(node.stmts) : BodyIsPure(s)
      [] node.k = "FunctionDef" -> BodyIsPure(node.body)
      [] node.k = "LetBinding" -> BodyIsPure(node.value)
      [] node.k = "If" ->
            /\ BodyIsPure(node.condition)
            /\ BodyIsPure(node.then_block)
            /\ (IsSome(node.else_block) => BodyIsPure(Unwrap(node.else_block)))
      [] node.k = "While" -> BodyIsPure(node.condition) /\ BodyIsPure(node.body)
      [] node.k = "For" -> BodyIsPure(node.iterator) /\ BodyIsPure(node.body)
      [] node.k = "Return" -> IsSome(node.value) => BodyIsPure(Unwrap(node.value))
      [] node.k = "BinaryOp" ->
            IF node.op = "Add" /\ (node.left.k = "StringLit" \/ node.right.k = "StringLit")
            THEN FALSE
            ELSE BodyIsPure(node.left) /\ BodyIsPure(node.right)
      [] node.k = "UnaryOp" -> BodyIsPure(node.operand)
      [] node.k = "ExpressionStatement" -> BodyIsPure(node.e)
      [] node.k = "Match" ->
            BodyIsPure(node.value) /\ \A a \in Range(node.arms) : BodyIsPure(a.body)
      [] node.k = "ArrayLit" -> \A e \in Range(node.elems) : BodyIsPure(e)
      [] node.k = "StructInit" -> \A f \in Range(node.fields) : BodyIsPure(f.value)
      [] node.k = "Index" -> BodyIsPure(node.array) /\ BodyIsPure(node.index)
      [] node.k = "Reference" -> BodyIsPure(node.e)
      [] node.k = "EnumValue" -> IsSome(node.value) => BodyIsPure(Unwrap(node.value))
      [] node.k = "MethodCall" ->
            BodyIsPure(node.object) /\ \A a \in Range(node.args) : BodyIsPure(a)
      [] node.k = "MemberAccess" -> BodyIsPure(node.object)
      [] OTHER -> TRUE

InferPurity(params, body) ==
    LET has_string_param ==
            \E p \in Range(params) : StripRefPrefix(p.param_type)[3] = "string"
        mut_ref ==
            \E p \in Range(params) :
                /\ (p.is_reference \/ StripRefPrefix(p.param_type)[1])
                /\ (p.is_mutable \/ StripRefPrefix(p.param_type)[2])
    IN IF mut_ref THEN FALSE
       ELSE IF has_string_param /\ BodyContainsAdd(body) THEN FALSE
       ELSE BodyIsPure(body)

-----------------------------------------------------------------------------
(* The CodeGenerator object and its small helpers                          *)

\* VarMetadata (codegen.rs:24-31)
VarMetadata(llvm_name, var_type, is_heap, array_size, is_string_literal) ==
    [llvm_name |-> llvm_name, var_type |-> var_type, is_heap |-> is_heap,
     array_size |-> array_size, is_string_literal |-> is_string_literal]

\* LoopLabels (codegen.rs:33-36)
LoopLabels(continue_label, break_label) ==
    [continue_label |-> continue_label, break_label |-> break_label]

\* CodeGenerator::new (codegen.rs:221-241); `reg` holds the String the last
\* gen_node call returned, `iter_seed` the iteration order of the HashMaps
NewCodeGenerator ==
    [output |-> << >>, struct_decls |-> << >>, string_counter |-> 0,
     temp_counter |-> 0, label_counter |-> 0, string_literals |-> << >>,
     current_function_vars |-> EmptyMap, loop_stack |-> << >>,
     enum_types |-> EmptyMap, struct_types |-> EmptyMap,
     block_terminated |-> FALSE, current_function_name |-> "",
     current_function_return_type |-> "", function_signatures |-> EmptyMap,
     pure_functions |-> {}, non_escaping |-> {}, current_binding |-> None,
     reg |-> "", iter_seed |-> 0]

\* One emitted line: its opcode, the name it defines ("" when none), its
\* operands, and the gen_node arm (or pass) that emitted it
Line(site, op, def, args) == [site |-> site, op |-> op, def |-> def, args |-> args]

\* emit (codegen.rs:2747-2750)
Emit(g, line) == [g EXCEPT !.output = Append(@, line)]

EmitAll(g, lines) == [g EXCEPT !.output = @ \o lines]

\* new_temp (codegen.rs:2728-2732): the name it returns, and the generator after it
TempName(g) == "%" \o ToString(g.temp_counter)
\* a new_temp that leaves the counter where it is
NewTempStuck(g) == g

NewTemp(g) == [g EXCEPT !.temp_counter = @ + 1]

\* new_label (codegen.rs:2734-2738)
LabelName(g, prefix) == prefix \o ToString(g.label_counter)
NewLabel(g) == [g EXCEPT !.label_counter = @ + 1]

\* new_string_literal (codegen.rs:2740-2745)
StringId(g) == ".str." \o ToString(g.string_counter)
NewStringLiteral(g, value) ==
    [g EXCEPT !.string_counter = @ + 1,
              !.string_literals = Append(@, <<StringId(g), value>>)]

Ret(g, r) == [g EXCEPT !.reg = r]

\* mangle_fn (codegen.rs:2399-2404)
MangleFn(name) == IF name = "main" THEN "main" ELSE "brn_" \o name

\* type_to_llvm (codegen.rs:2709-2726)
RECURSIVE TypeToLlvm(_, _)
TypeToLlvm(g, type_name) ==
    CASE type_name = "int" -> "i64"
      [] type_name = "bool" -> "i1"
      [] type_name = "char" -> "i8"
      [] type_name = "string" -> "i8*"
      [] type_name = "array" -> "i64*"
      [] type_name = "Vec" -> "i8*"
      [] type_name = "void" -> "void"
      [] type_name = "enum" -> "{ i32, i64 }*"
      [] OTHER ->
            IF \E t \in ValueTypes : type_name = "*" \o t
            THEN TypeToLlvm(g, CHOOSE t \in ValueTypes : type_name = "*" \o t) \o "*"
            ELSE IF ContainsKey(g.struct_types, type_name)
            THEN "%" \o type_name \o "*"
            ELSE "i64"

\* llvm_to_type (codegen.rs:2698-2707)
LlvmToType(llvm) ==
    CASE llvm = "i64" -> "int"
      [] llvm = "i1" -> "bool"
      [] llvm = "i8" -> "char"
      [] llvm = "i8*" -> "string"
      [] llvm = "void" -> "void"
      [] OTHER -> "int"

\* infer_type (codegen.rs:2650-2696)
RECURSIVE InferType(_, _)
InferType(g, node) ==
    CASE node.k = "Number" -> "int"
      [] node.k = "Boolean" -> "bool"
      [] node.k = "Character" -> "char"
      [] node.k = "StringLit" -> "string"
      [] node.k = "StructInit" -> node.name
      [] node.k = "BinaryOp" ->
            IF node.op \in {"Equal", "NotEqual", "LessThan", "LessEqual", "GreaterThan",
                            "GreaterEqual", "And", "Or"}
            THEN "bool" ELSE InferType(g, node.left)
      [] node.k = "Identifier" ->
            IF ContainsKey(g.current_function_vars, node.name)
            THEN g.current_function_vars[node.name].var_type ELSE "int"
      [] node.k = "ArrayLit" -> "array"
      [] node.k = "EnumValue" -> "enum"
      [] node.k = "Call" ->
            CASE node.name \in {"read_file", "int_to_string"} -> "string"
              [] node.name = "write_file" -> "int"
              [] node.name = "vec_new" -> "Vec"
              [] node.name \in {"vec_get", "vec_len"} -> "int"
              [] OTHER ->
                    IF ContainsKey(g.function_signatures, node.name)
                    THEN LlvmToType(g.function_signatures[node.name]) ELSE "int"
      [] node.k = "Reference" -> InferType(g, node.e)
      [] node.k = "MethodCall" ->
            IF node.method \in {"len", "char_at", "get"} THEN "int"
            ELSE InferType(g, node.object)
      [] OTHER -> "int"

\* infer_struct_name (codegen.rs:2638-2648)
InferStructName(g, node) ==
    CASE node.k = "Identifier" ->
            IF ContainsKey(g.current_function_vars, node.name)
            THEN g.current_function_vars[node.name].var_type ELSE ""
      [] node.k = "StructInit" -> node.name
      [] OTHER -> ""

-----------------------------------------------------------------------------
(* Iteration order of the generator's HashMaps.  std::collections::HashMap *)
(* iterates in an order fixed by its RandomState, which the program does   *)
(* not choose: `iter_seed` stands for it, and IterOrder is the order one   *)
(* iteration over the keys `keys` yields under that seed.                  *)

RECURSIVE NthPerm(_, _)
NthPerm(s, n) ==
    IF s = << >> THEN << >>
    ELSE LET i == (n % Len(s)) + 1
             rest == SubSeq(s, 1, i - 1) \o SubSeq(s, i + 1, Len(s))
         IN <<s[i]>> \o NthPerm(rest, n \div Len(s))

IterOrder(g, keys) == NthPerm(SetToSeq(keys), g.iter_seed)

-----------------------------------------------------------------------------
(* gen_node (codegen.rs:1071-2253), one operator per arm.  Each takes the  *)
(* generator before the call and yields the generator after it, with the   *)
(* returned register name in `reg`.                                        *)

RECURSIVE GenNode(_, _)

\* the last of `steps`, each computed when the one before it is: TLC computes
\* a definition when it is first read, and listing the steps makes it read
\* them in the order the program runs them
InOrder(steps) == steps[Len(steps)]

\* `let r = self.new_temp(); self.emit("  r = op args")`
Def(g, site, op, args) ==
    Ret(Emit(NewTemp(g), Line(site, op, TempName(g), args)), TempName(g))

\* gen_string_concat_inner (codegen.rs:2591-2636)
GenStringConcatInner(g, left, right, use_stack) ==
    LET s == "BinaryOp"
        len1 == TempName(g)
        g1 == NewTemp(g)
        len2 == TempName(g1)
        g2 == NewTemp(g1)
        g3 == Emit(g2, Line(s, "call", len1, <<"i64", "strlen", left>>))
        g4 == Emit(g3, Line(s, "call", len2, <<"i64", "strlen", right>>))
        total == TempName(g4)
        g5 == NewTemp(g4)
        total_plus_one == TempName(g5)
        g6 == NewTemp(g5)
        g7 == Emit(g6, Line(s, "add", total, <<len1, len2>>))
        g8 == Emit(g7, Line(s, "add", total_plus_one, <<total, "1">>))
        new_ptr == TempName(g8)
        g9 == NewTemp(g8)
        g10 == Emit(g9, IF use_stack
                        THEN Line(s, "alloca", new_ptr, <<"i8", total_plus_one>>)
                        ELSE Line(s, "call", new_ptr, <<"i8*", "malloc", total_plus_one>>))
        g11 == Def(g10, s, "call", <<"i8*", "strcpy", new_ptr, left>>)
        g12 == Def(g11, s, "getelementptr", <<"i8", new_ptr, len1>>)
        g13 == LET copy(h) == Def(h, s, "call", <<"i8*", "strcpy", h.reg, right>>)
               IN copy(g12)
    IN Ret(InOrder(<<g4, g8, g13>>), new_ptr)

\* gen_string_concat (codegen.rs:2582-2589)
GenStringConcat(g, left, right) ==
    GenStringConcatInner(g, left, right,
        IsSome(g.current_binding) /\ Unwrap(g.current_binding) \in g.non_escaping)

\* the closure free_if_owned (codegen.rs:1722-1736)
FreeIfOwned(g, node) ==
    IF /\ node.k = "Identifier"
       /\ ContainsKey(g.current_function_vars, node.name)
       /\ ~g.current_function_vars[node.name].is_string_literal
    THEN LET g1 == Def(g, "BinaryOp", "load",
                       <<"i8*", g.current_function_vars[node.name].llvm_name>>)
         IN Emit(g1, Line("BinaryOp", "call", "", <<"void", "free", g1.reg>>))
    ELSE g

BinOpInstr ==
    [Sub |-> <<"sub", "i64">>, Mul |-> <<"mul", "i64">>, Div |-> <<"sdiv", "i64">>,
     Mod |-> <<"srem", "i64">>, LessThan |-> <<"icmp slt", "i64">>,
     LessEqual |-> <<"icmp sle", "i64">>, GreaterThan |-> <<"icmp sgt", "i64">>,
     GreaterEqual |-> <<"icmp sge", "i64">>, And |-> <<"and", "i1">>,
     Or |-> <<"or", "i1">>]

\* AstNode::BinaryOp (codegen.rs:1713-1865)
GenBinaryOp(g, node) ==
    LET gl == GenNode(g, node.left)
        left_reg == gl.reg
        gr == GenNode(gl, node.right)
        right_reg == gr.reg
        s == "BinaryOp"
    IN CASE node.op = "DotDot" -> Ret(gr, right_reg)
         [] node.op = "Add" ->
               IF InferType(gr, node.left) = "string"
               THEN LET gc == GenStringConcat(gr, left_reg, right_reg)
                        result == gc.reg
                    IN Ret(FreeIfOwned(FreeIfOwned(gc, node.right), node.left), result)
               ELSE Def(gr, s, "add", <<"i64", left_reg, right_reg>>)
         [] node.op \in {"Equal", "NotEqual"} ->
               LET cc == IF node.op = "Equal" THEN "icmp eq" ELSE "icmp ne"
               IN IF InferType(gr, node.left) = "string"
                  THEN LET g1 == Def(gr, s, "call", <<"i32", "strcmp", left_reg, right_reg>>)
                       IN Def(g1, s, cc, <<"i32", g1.reg, "0">>)
                  ELSE Def(gr, s, cc, <<"i64", left_reg, right_reg>>)
         [] OTHER ->
               Def(gr, s, BinOpInstr[node.op][1], <<BinOpInstr[node.op][2], left_reg, right_reg>>)

\* AstNode::UnaryOp (codegen.rs:1867-1881)
GenUnaryOp(g, node) ==
    LET g1 == GenNode(g, node.operand)
    IN IF node.op = "Not"
       THEN Def(g1, "UnaryOp", "xor", <<"i1", g1.reg, "true">>)
       ELSE Def(g1, "UnaryOp", "sub", <<"i64", "0", g1.reg>>)

\* AstNode::StringLit (codegen.rs:1889-1898)
GenStringLit(g, node) ==
    LET id == StringId(g)
        g1 == NewStringLiteral(g, node.s)
        len == ToString(Len(node.s) + 1)
    IN Def(g1, "StringLit", "getelementptr",
           <<"[" \o len \o " x i8]", "@" \o id, "0", "0">>)

\* AstNode::Identifier (codegen.rs:1951-1968)
GenIdentifier(g, node) ==
    IF ContainsKey(g.current_function_vars, node.name)
    THEN LET meta == g.current_function_vars[node.name]
         IN Def(g, "Identifier", "load", <<TypeToLlvm(g, meta.var_type), meta.llvm_name>>)
    ELSE Ret(g, "0")

\* AstNode::Reference (codegen.rs:1970-1995)
GenReference(g, node) ==
    IF node.e.k = "Identifier"
    THEN IF ContainsKey(g.current_function_vars, node.e.name)
         THEN LET meta == g.current_function_vars[node.e.name]
              IN IF StartsWithBracket(meta.var_type) \/ meta.var_type = "array"
                 THEN Ret(g, meta.llvm_name)
                 ELSE Def(g, "Reference", "load",
                          <<TypeToLlvm(g, meta.var_type), meta.llvm_name>>)
         ELSE Ret(g, "null")
    ELSE GenNode(g, node.e)

\* the argument loop of a user call (codegen.rs:2088-2152): `acc` carries the
\* generator and the "type reg" strings pushed so far
RECURSIVE GenCallArgs(_, _, _)
GenCallArgs(g, args, acc) ==
    IF args = << >> THEN [g |-> g, strs |-> acc]
    ELSE LET a == Head(args)
             fvars == g.current_function_vars
             loaded(g1) == [g |-> g1, s |-> "i8* " \o g1.reg]
             lowered(g1) ==
               LET reg == g1.reg
                   arg_type == InferType(g1, a)
               IN IF arg_type = "string"
                  THEN LET len == TempName(g1)
                           g2 == NewTemp(g1)
                           len1 == TempName(g2)
                           g3 == NewTemp(g2)
                           copy == TempName(g3)
                           g4 == NewTemp(g3)
                           copied == TempName(g4)
                           g5 == NewTemp(g4)
                           g6 == EmitAll(g5,
                               << Line("Call", "call", len, <<"i64", "strlen", reg>>),
                                  Line("Call", "add", len1, <<"i64", len, "1">>),
                                  Line("Call", "call", copy, <<"i8*", "malloc", len1>>),
                                  Line("Call", "call", copied,
                                       <<"i8*", "strcpy", copy, reg>>) >>)
                       IN [g |-> g6, s |-> TypeToLlvm(g6, arg_type) \o " " \o copy]
                  ELSE [g |-> g1, s |-> TypeToLlvm(g1, arg_type) \o " " \o reg]
             r ==
               IF a.k = "Reference"
               THEN IF a.e.k = "Identifier"
                    THEN IF ContainsKey(fvars, a.e.name)
                         THEN LET meta == fvars[a.e.name]
                              IN IF IsSome(meta.array_size)
                                 THEN [g |-> g,
                                       s |-> "[" \o ToString(Unwrap(meta.array_size))
                                             \o " x i64]* " \o meta.llvm_name]
                                 ELSE IF meta.var_type = "string"
                                 THEN loaded(Def(g, "Call", "load", <<"i8*", meta.llvm_name>>))
                                 ELSE [g |-> g,
                                       s |-> TypeToLlvm(g, meta.var_type) \o "* "
                                             \o meta.llvm_name]
                         ELSE [g |-> g, s |-> "i8* null"]
                    ELSE loaded(GenNode(g, a.e))
               ELSE lowered(GenNode(g, a))
             rest(x) == InOrder(<<x, GenCallArgs(x.g, Tail(args), Append(acc, x.s))>>)
         IN rest(r)

\* the `_` arm of AstNode::Call: a call of a user function (codegen.rs:2084-2179)
GenUserCall(g, node) ==
    LET mangled == MangleFn(node.name)
        call(r) ==
          LET g1 == r.g
              return_type == IF ContainsKey(g1.function_signatures, node.name)
                             THEN g1.function_signatures[node.name] ELSE "i64"
          IN IF InOrder(<<r, return_type>>) = "void"
             THEN Ret(Emit(g1, Line("Call", "call", "", <<"void", mangled>> \o r.strs)), "0")
             ELSE Def(g1, "Call", "call", <<return_type, mangled>> \o r.strs)
    IN call(GenCallArgs(g, node.args, << >>))

\* AstNode::Call (codegen.rs:1997-2180)
GenCall(g, node) ==
    LET n == node.name
        args == node.args
        s == "Call"
    IN CASE n = "print" /\ Len(args) > 0 ->
              IF InferType(g, args[1]) = "string"
              THEN LET g1 == GenNode(g, args[1])
                   IN Def(g1, s, "call", <<"i32", "puts", g1.reg>>)
              ELSE LET g1 == GenNode(g, args[1])
                   IN Ret(Emit(g1, Line(s, "call", "", <<"void", "brn_print_int", g1.reg>>)),
                          "0")
         [] n = "read_file" /\ Len(args) > 0 ->
              LET g1 == GenNode(g, args[1])
              IN Def(g1, s, "call", <<"i8*", "read_file_impl", g1.reg>>)
         [] n = "write_file" /\ Len(args) >= 2 ->
              LET g1 == GenNode(g, args[1])
                  g2 == GenNode(g1, args[2])
                  g3 == Def(g2, s, "call", <<"i32", "write_file_impl", g1.reg, g2.reg>>)
              IN Def(g3, s, "sext", <<"i32", g3.reg, "i64">>)
         [] n = "vec_new" -> Def(g, s, "call", <<"i8*", "vec_new_impl">>)
         [] n = "vec_push" /\ Len(args) >= 2 ->
              LET g1 == GenNode(g, args[1])
                  g2 == GenNode(g1, args[2])
              IN Ret(Emit(g2, Line(s, "call", "",
                                   <<"void", "vec_push_impl", g1.reg, g2.reg>>)), "0")
         [] n = "vec_get" /\ Len(args) >= 2 ->
              LET g1 == GenNode(g, args[1])
                  g2 == GenNode(g1, args[2])
              IN Def(g2, s, "call", <<"i64", "vec_get_impl", g1.reg, g2.reg>>)
         [] n = "vec_set" /\ Len(args) >= 3 ->
              LET g1 == GenNode(g, args[1])
                  g2 == GenNode(g1, args[2])
                  g3 == GenNode(g2, args[3])
              IN Ret(Emit(g3, Line(s, "call", "",
                                   <<"void", "vec_set_impl", g1.reg, g2.reg, g3.reg>>)), "0")
         [] n = "vec_len" /\ Len(args) > 0 ->
              LET g1 == GenNode(g, args[1])
              IN Def(g1, s, "call", <<"i64", "vec_len_impl", g1.reg>>)
         [] n = "int_to_string" /\ Len(args) > 0 ->
              LET g1 == GenNode(g, args[1])
              IN Def(g1, s, "call", <<"i8*", "int_to_string_impl", g1.reg>>)
         [] OTHER -> GenUserCall(g, node)

\* AstNode::MethodCall (codegen.rs:2182-2249)
GenMethodCall(g, node) ==
    LET obj_type == InferType(g, node.object)
        m == node.method
        args == node.args
        s == "MethodCall"
    IN CASE m = "len" ->
              LET g1 == GenNode(g, node.object)
              IN IF obj_type = "Vec"
                 THEN Def(g1, s, "call", <<"i64", "vec_len_impl", g1.reg>>)
                 ELSE Def(g1, s, "call", <<"i64", "strlen", g1.reg>>)
         [] m = "char_at" /\ Len(args) > 0 ->
              LET g1 == GenNode(g, node.object)
                  g2 == GenNode(g1, args[1])
                  g3 == Def(g2, s, "getelementptr", <<"i8", g1.reg, g2.reg>>)
                  g4 == Def(g3, s, "load", <<"i8", g3.reg>>)
              IN Def(g4, s, "sext", <<"i8", g4.reg, "i64">>)
         [] m = "push" /\ Len(args) > 0 ->
              LET g1 == GenNode(g, node.object)
                  g2 == GenNode(g1, args[1])
              IN Ret(Emit(g2, Line(s, "call", "",
                                   <<"void", "vec_push_impl", g1.reg, g2.reg>>)), "0")
         [] m = "get" /\ Len(args) > 0 ->
              LET g1 == GenNode(g, node.object)
                  g2 == GenNode(g1, args[1])
              IN Def(g2, s, "call", <<"i64", "vec_get_impl", g1.reg, g2.reg>>)
         [] m = "set" /\ Len(args) >= 2 ->
              LET g1 == GenNode(g, node.object)
                  g2 == GenNode(g1, args[1])
                  g3 == GenNode(g2, args[2])
              IN Ret(Emit(g3, Line(s, "call", "",
                                   <<"void", "vec_set_impl", g1.reg, g2.reg, g3.reg>>)), "0")
         [] OTHER -> Ret(g, "0")

\* position of the field named `fname` in the struct's field list, if any
FieldPosition(struct_fields, fname) ==
    LET hits == { i \in DOMAIN struct_fields : struct_fields[i].name = fname }
    IN IF hits = {} THEN None
       ELSE Some((CHOOSE i \in hits : \A j \in hits : i <= j) - 1)

\* the field loop of AstNode::StructInit (codegen.rs:1100-1121)
RECURSIVE GenStructFields(_, _, _, _, _)
GenStructFields(g, name, struct_fields, struct_ptr, fields) ==
    IF fields = << >> THEN g
    ELSE LET f == Head(fields)
             g1 == GenNode(g, f.value)
             pos == FieldPosition(struct_fields, f.name)
             field_idx == IF IsSome(pos) THEN Unwrap(pos) ELSE 0
             field_type == IF field_idx + 1 \in DOMAIN struct_fields
                           THEN struct_fields[field_idx + 1].field_type ELSE "int"
             llvm_field_type == TypeToLlvm(g1, field_type)
             g2 == Def(g1, "StructInit", "getelementptr",
                       <<"%" \o name, struct_ptr, "0", ToString(field_idx)>>)
             g3 == Emit(g2, Line("StructInit", "store", "",
                                 <<llvm_field_type, g1.reg, g2.reg>>))
         IN GenStructFields(g3, name, struct_fields, struct_ptr, Tail(fields))

\* AstNode::StructInit (codegen.rs:1077-1124)
GenStructInit(g, node) ==
    LET struct_fields == IF ContainsKey(g.struct_types, node.name)
                         THEN g.struct_types[node.name] ELSE << >>
        num_fields == Len(struct_fields)
        stack_promote == IsSome(g.current_binding)
                         /\ Unwrap(g.current_binding) \in g.non_escaping
        struct_ptr == TempName(g)
        g1 == NewTemp(g)
        g2 == IF stack_promote
              THEN Emit(g1, Line("StructInit", "alloca", struct_ptr, <<"%" \o node.name>>))
              ELSE LET raw_ptr == TempName(g1)
                       g1a == NewTemp(g1)
                       g1b == Emit(g1a, Line("StructInit", "call", raw_ptr,
                                             <<"i8*", "malloc", ToString(num_fields * 8)>>))
                   IN Emit(g1b, Line("StructInit", "bitcast", struct_ptr,
                                     <<"i8*", raw_ptr, "%" \o node.name \o "*">>))
    IN Ret(GenStructFields(g2, node.name, struct_fields, struct_ptr, node.fields),
           struct_ptr)

\* AstNode::MemberAccess (codegen.rs:1126-1149)
GenMemberAccess(g, node) ==
    LET g1 == GenNode(g, node.object)
        struct_name == InferStructName(g1, node.object)
        pos == IF ContainsKey(g1.struct_types, struct_name)
               THEN FieldPosition(g1.struct_types[struct_name], node.field) ELSE None
    IN IF IsSome(pos)
       THEN LET field_idx == Unwrap(pos)
                llvm_field_type ==
                    TypeToLlvm(g1, g1.struct_types[struct_name][field_idx + 1].field_type)
                g2 == Def(g1, "MemberAccess", "getelementptr",
                          <<"%" \o struct_name, g1.reg, "0", ToString(field_idx)>>)
            IN Def(g2, "MemberAccess", "load", <<llvm_field_type, g2.reg>>)
       ELSE Ret(g1, "0")

\* AstNode::EnumDef (codegen.rs:1151-1155)
GenEnumDef(g, node) ==
    Ret([g EXCEPT !.enum_types =
            Insert(@, node.name, [i \in DOMAIN node.variants |-> node.variants[i].name])],
        "0")

\* position of `variant` in the registered variant list of `enum_name`, if any
VariantPosition(g, enum_name, variant) ==
    IF ContainsKey(g.enum_types, enum_name)
    THEN LET vs == g.enum_types[enum_name]
             hits == { i \in DOMAIN vs : vs[i] = variant }
         IN IF hits = {} THEN None
            ELSE Some((CHOOSE i \in hits : \A j \in hits : i <= j) - 1)
    ELSE None

\* AstNode::EnumValue (codegen.rs:1157-1192)
GenEnumValue(g, node) ==
    LET pos == VariantPosition(g, node.enum_name, node.variant)
        tag == IF IsSome(pos) THEN Unwrap(pos) ELSE 0
        s == "EnumValue"
        g1 == Def(g, s, "alloca", <<"{ i32, i64 }">>)
        ptr == g1.reg
        g2 == Def(g1, s, "getelementptr", <<"{ i32, i64 }", ptr, "0", "0">>)
        g3 == LET store(h) == Emit(h, Line(s, "store", "", <<"i32", ToString(tag), h.reg>>))
              IN store(g2)
        g4 == IF IsSome(node.value) THEN GenNode(g3, Unwrap(node.value)) ELSE Ret(g3, "0")
        g6 == LET store(h, val) == Emit(h, Line(s, "store", "", <<"i64", val, h.reg>>))
                  payload(v) ==
                      store(Def(v, s, "getelementptr", <<"{ i32, i64 }", ptr, "0", "1">>),
                            v.reg)
              IN payload(g4)
    IN Ret(InOrder(<<g4, g6>>), ptr)

\* the element loop of AstNode::ArrayLit (codegen.rs:1910-1918)
RECURSIVE GenArrayElems(_, _, _, _)
GenArrayElems(g, elems, ptr, i) ==
    IF i > Len(elems) THEN g
    ELSE LET g1 == GenNode(g, elems[i])
             g2 == Def(g1, "ArrayLit", "getelementptr",
                       <<"[" \o ToString(Len(elems)) \o " x i64]", ptr, "0",
                         ToString(i - 1)>>)
             g3 == Emit(g2, Line("ArrayLit", "store", "", <<"i64", g1.reg, g2.reg>>))
         IN GenArrayElems(g3, elems, ptr, i + 1)

\* AstNode::ArrayLit (codegen.rs:1900-1921)
GenArrayLit(g, node) ==
    IF node.elems = << >> THEN Ret(g, "null")
    ELSE LET g1 == Def(g, "ArrayLit", "alloca",
                       <<"[" \o ToString(Len(node.elems)) \o " x i64]">>)
         IN Ret(GenArrayElems(g1, node.elems, g1.reg, 1), g1.reg)

\* AstNode::Index (codegen.rs:1923-1949)
GenIndex(g, node) ==
    LET g1 == GenNode(g, node.index)
        index_val == g1.reg
        fvars == g1.current_function_vars
        s == "Index"
    IN IF node.array.k = "Identifier" /\ ~ContainsKey(fvars, node.array.name)
       THEN Ret(g1, "0")
       ELSE LET g2 == IF node.array.k = "Identifier" THEN g1 ELSE GenNode(g1, node.array)
                array_ptr == IF node.array.k = "Identifier"
                             THEN fvars[node.array.name].llvm_name ELSE g2.reg
                array_size ==
                    IF node.array.k = "Identifier"
                          /\ IsSome(fvars[node.array.name].array_size)
                    THEN Unwrap(fvars[node.array.name].array_size) ELSE 100
                ty == "[" \o ToString(array_size) \o " x i64]"
                g3 == Def(g2, s, "getelementptr", <<ty, array_ptr, "0", index_val>>)
            IN Def(g3, s, "load", <<"i64", g3.reg>>)

\* an arm body with its closing branch, shared by every pattern that lowers
\* one (codegen.rs:1266-1270, 1275-1279, 1309-1313, 1335-1339, 1344-1348)
GenArmBody(g, body, end_label) ==
    LET close(g1) == IF ~g1.block_terminated
                     THEN Emit(g1, Line("Match", "br", "", <<end_label>>))
                     ELSE g1
    IN close(GenNode([g EXCEPT !.block_terminated = FALSE], body))

\* one arm of an enum match (codegen.rs:1211-1287)
GenEnumArm(g, arms, i, value_reg, tag, end_label) ==
    LET arm == arms[i + 1]
        s == "Match"
        arm_label == LabelName(g, "match_arm_" \o ToString(i))
        g1 == NewLabel(g)
        last == (i = Len(arms) - 1)
        next_label == IF ~last THEN LabelName(g1, "match_check_" \o ToString(i + 1))
                      ELSE end_label
        g2 == IF ~last THEN NewLabel(g1) ELSE g1
        pat == arm.pattern
        branch(h) == Emit(h, Line(s, "br", "", <<h.reg, arm_label, next_label>>))
        g3 ==
          CASE pat.p = "EnumPattern" ->
                LET pos == VariantPosition(g2, pat.enum_name, pat.variant)
                    variant_tag == IF IsSome(pos) THEN Unwrap(pos) ELSE i
                    a1 == Def(g2, s, "icmp eq", <<"i32", tag, ToString(variant_tag)>>)
                    a2 == branch(a1)
                    a3 == Emit(a2, Line(s, "label", "", <<arm_label>>))
                    bind(b3, payload) ==
                        [Emit(b3, Line(s, "store", "", <<"i64", payload, b3.reg>>))
                            EXCEPT !.current_function_vars =
                               Insert(@, Unwrap(pat.binding),
                                      VarMetadata(b3.reg, "int", FALSE, None, FALSE))]
                    slot(b2) == bind(Def(b2, s, "alloca", <<"i64">>), b2.reg)
                    load(b1) == slot(Def(b1, s, "load", <<"i64", b1.reg>>))
                    a4 == IF IsSome(pat.binding)
                          THEN load(Def(a3, s, "getelementptr",
                                        <<"{ i32, i64 }", value_reg, "0", "1">>))
                          ELSE a3
                IN GenArmBody(a4, arm.body, end_label)
            [] pat.p \in {"Wildcard", "Identifier"} ->
                LET a1 == Emit(g2, Line(s, "br", "", <<arm_label>>))
                    a2 == Emit(a1, Line(s, "label", "", <<arm_label>>))
                IN GenArmBody(a2, arm.body, end_label)
            [] OTHER -> g2
    IN IF ~last THEN Emit(g3, Line(s, "label", "", <<next_label>>))
       ELSE g3

\* one arm of a value match (codegen.rs:1289-1356)
GenValueArm(g, arms, i, value_reg, end_label) ==
    LET arm == arms[i + 1]
        s == "Match"
        arm_label == LabelName(g, "match_arm_" \o ToString(i))
        g1 == NewLabel(g)
        last == (i = Len(arms) - 1)
        next_label == IF ~last THEN LabelName(g1, "match_check_" \o ToString(i + 1))
                      ELSE end_label
        g2 == IF ~last THEN NewLabel(g1) ELSE g1
        pat == arm.pattern
        branch(h) == Emit(h, Line(s, "br", "", <<h.reg, arm_label, next_label>>))
        g3 ==
          CASE pat.p = "NumberPattern" ->
                LET a1 == Def(g2, s, "icmp eq", <<"i64", value_reg, ToString(pat.n)>>)
                    a2 == branch(a1)
                    a3 == Emit(a2, Line(s, "label", "", <<arm_label>>))
                IN GenArmBody(a3, arm.body, end_label)
            [] pat.p = "StringPattern" ->
                LET str_id == StringId(g2)
                    a0 == NewStringLiteral(g2, pat.s)
                    str_len == ToString(Len(pat.s) + 1)
                    a1 == Def(a0, s, "getelementptr",
                              <<"[" \o str_len \o " x i8]", "@" \o str_id, "0", "0">>)
                    compare(h) == Def(h, s, "call", <<"i32", "strcmp", value_reg, h.reg>>)
                    test(h) == Def(h, s, "icmp eq", <<"i32", h.reg, "0">>)
                    a4 == branch(test(compare(a1)))
                    a5 == Emit(a4, Line(s, "label", "", <<arm_label>>))
                IN GenArmBody(a5, arm.body, end_label)
            [] pat.p \in {"Wildcard", "Identifier"} ->
                LET a1 == Emit(g2, Line(s, "br", "", <<arm_label>>))
                    a2 == Emit(a1, Line(s, "label", "", <<arm_label>>))
                IN GenArmBody(a2, arm.body, end_label)
            [] OTHER -> g2
    IN IF ~last THEN Emit(g3, Line(s, "label", "", <<next_label>>))
       ELSE g3

RECURSIVE GenEnumArms(_, _, _, _, _, _)
GenEnumArms(g, arms, i, value_reg, tag, end_label) ==
    IF i >= Len(arms) THEN g
    ELSE LET rest(g1) ==
                 InOrder(<<g1, GenEnumArms(g1, arms, i + 1, value_reg, tag, end_label)>>)
         IN rest(GenEnumArm(g, arms, i, value_reg, tag, end_label))

RECURSIVE GenValueArms(_, _, _, _, _)
GenValueArms(g, arms, i, value_reg, end_label) ==
    IF i >= Len(arms) THEN g
    ELSE LET rest(g1) ==
                 InOrder(<<g1, GenValueArms(g1, arms, i + 1, value_reg, end_label)>>)
         IN rest(GenValueArm(g, arms, i, value_reg, end_label))

\* AstNode::Match (codegen.rs:1194-1362)
GenMatch(g, node) ==
    LET g1 == GenNode(g, node.value)
        value_reg == g1.reg
        end_label == LabelName(g1, "match_end")
        g2 == NewLabel(g1)
        is_enum_match == \E a \in Range(node.arms) : a.pattern.p = "EnumPattern"
        g3 == IF is_enum_match
              THEN LET t1 == Def(g2, "Match", "getelementptr",
                                 <<"{ i32, i64 }", value_reg, "0", "0">>)
                       load(h) == Def(h, "Match", "load", <<"i32", h.reg>>)
                       arms(t2) ==
                           GenEnumArms(t2, node.arms, 0, value_reg, t2.reg, end_label)
                   IN arms(load(t1))
              ELSE GenValueArms(g2, node.arms, 0, value_reg, end_label)
        g4 == Emit(g3, Line("Match", "label", "", <<end_label>>))
    IN Ret([InOrder(<<g1, g3, g4>>) EXCEPT !.block_terminated = FALSE], "0")

\* AstNode::LetBinding (codegen.rs:1372-1425)
GenLetBinding(g, node) ==
    LET bind(g1) ==
          LET value_reg == g1.reg
              g2 == [g1 EXCEPT !.current_binding = None]
              var_type == InferType(g2, node.value)
              is_string_literal == (node.value.k = "StringLit")
              is_struct == ContainsKey(g2.struct_types, var_type)
              stack_promote == node.name \in g2.non_escaping
              is_heap == /\ ~stack_promote
                         /\ \/ (var_type = "string" /\ ~is_string_literal)
                            \/ var_type = "Vec"
                            \/ is_struct
              llvm_type_str == TypeToLlvm(g2, var_type)
              store(g3) ==
                LET ptr == g3.reg
                    g4 == Emit(g3, Line("LetBinding", "store", "",
                                        <<llvm_type_str, value_reg, ptr>>))
                IN Ret([g4 EXCEPT !.current_function_vars =
                           Insert(@, node.name,
                                  VarMetadata(ptr, var_type, is_heap, None,
                                              is_string_literal))],
                       ptr)
          IN IF node.value.k = "ArrayLit"
             THEN LET size == Len(node.value.elems)
                  IN Ret([g2 EXCEPT !.current_function_vars =
                             Insert(@, node.name,
                                    VarMetadata(value_reg, ArrayTypeName(size), FALSE,
                                                Some(size), FALSE))],
                         value_reg)
             ELSE store(Def(g2, "LetBinding", "alloca", <<llvm_type_str>>))
    IN bind(GenNode([g EXCEPT !.current_binding = Some(node.name)], node.value))

\* AstNode::ArrayAssignment (codegen.rs:1427-1447)
GenArrayAssignment(g, node) ==
    LET g1 == GenNode(g, node.index)
        g2 == GenNode(g1, node.value)
        value_reg == g2.reg
    IN IF ContainsKey(g2.current_function_vars, node.array)
       THEN LET meta == g2.current_function_vars[node.array]
                array_size == IF IsSome(meta.array_size) THEN Unwrap(meta.array_size)
                              ELSE 100
                g3 == Def(g2, "ArrayAssignment", "getelementptr",
                          <<"[" \o ToString(array_size) \o " x i64]", meta.llvm_name, "0",
                            g1.reg>>)
            IN Ret(Emit(g3, Line("ArrayAssignment", "store", "",
                                 <<"i64", value_reg, g3.reg>>)), value_reg)
       ELSE Ret(g2, value_reg)

\* AstNode::Assignment (codegen.rs:1449-1462)
GenAssignment(g, node) ==
    LET g1 == GenNode(g, node.value)
        value_reg == g1.reg
    IN IF ContainsKey(g1.current_function_vars, node.name)
       THEN LET meta == g1.current_function_vars[node.name]
            IN Ret(Emit(g1, Line("Assignment", "store", "",
                                 <<TypeToLlvm(g1, meta.var_type), value_reg,
                                   meta.llvm_name>>)), value_reg)
       ELSE Ret(g1, value_reg)

\* AstNode::If (codegen.rs:1464-1511)
GenIf(g, node) ==
    LET s == "If"
        g1 == GenNode(g, node.condition)
        cond_reg == g1.reg
        then_label == LabelName(g1, "then")
        g2 == NewLabel(g1)
        else_label == LabelName(g2, "else")
        g3 == NewLabel(g2)
        end_label == LabelName(g3, "endif")
        g4 == NewLabel(g3)
        g5 == IF IsSome(node.else_block)
              THEN Emit(g4, Line(s, "br", "", <<cond_reg, then_label, else_label>>))
              ELSE Emit(g4, Line(s, "br", "", <<cond_reg, then_label, end_label>>))
        g6 == Emit(g5, Line(s, "label", "", <<then_label>>))
        g7 == GenNode([g6 EXCEPT !.block_terminated = FALSE], node.then_block)
        then_terminated == g7.block_terminated
        close(h) == IF ~h.block_terminated
                    THEN Emit(h, Line(s, "br", "", <<end_label>>)) ELSE h
        g8 == close(g7)
        g9 == IF IsSome(node.else_block)
              THEN LET e1 == Emit(g8, Line(s, "label", "", <<else_label>>))
                   IN close(GenNode([e1 EXCEPT !.block_terminated = FALSE],
                                    Unwrap(node.else_block)))
              ELSE g8
        join(h) ==
          LET else_terminated == IsSome(node.else_block) /\ h.block_terminated
              g10 == Emit(h, Line(s, "label", "", <<end_label>>))
          IN IF then_terminated /\ else_terminated
             THEN Emit(g10, Line(s, "unreachable", "", << >>)) ELSE g10
        g11 == join(g9)
    IN Ret([InOrder(<<g1, g7, g9, g11>>) EXCEPT !.block_terminated = FALSE], "0")

\* AstNode::While (codegen.rs:1513-1542)
GenWhile(g, node) ==
    LET s == "While"
        cond_label == LabelName(g, "while_cond")
        g1 == NewLabel(g)
        body_label == LabelName(g1, "while_body")
        g2 == NewLabel(g1)
        end_label == LabelName(g2, "while_end")
        g3 == NewLabel(g2)
        g4 == [g3 EXCEPT !.loop_stack = Append(@, LoopLabels(cond_label, end_label))]
        g5 == Emit(g4, Line(s, "br", "", <<cond_label>>))
        g6 == Emit(g5, Line(s, "label", "", <<cond_label>>))
        g7 == GenNode(g6, node.condition)
        test(h) == Emit(h, Line(s, "br", "", <<h.reg, body_label, end_label>>))
        g8 == test(g7)
        g9 == Emit(g8, Line(s, "label", "", <<body_label>>))
        g10 == GenNode([g9 EXCEPT !.block_terminated = FALSE], node.body)
        again(h) == IF ~h.block_terminated
                    THEN Emit(h, Line(s, "br", "", <<cond_label>>)) ELSE h
        g11 == again(g10)
        g12 == Emit(g11, Line(s, "label", "", <<end_label>>))
    IN Ret([InOrder(<<g7, g10, g12>>)
              EXCEPT !.loop_stack = SubSeq(@, 1, Len(@) - 1),
                     !.block_terminated = FALSE], "0")

\* AstNode::For (codegen.rs:1544-1619)
GenFor(g, node) ==
    LET s == "For"
        is_range == node.iterator.k = "BinaryOp" /\ node.iterator.op = "DotDot"
        ga == IF is_range THEN GenNode(g, node.iterator.left) ELSE g
        start_val == IF is_range THEN ga.reg ELSE "0"
        gb == IF is_range THEN GenNode(ga, node.iterator.right)
              ELSE GenNode(g, node.iterator)
        end_val == gb.reg
        start_label == LabelName(gb, "for_start")
        g1 == NewLabel(gb)
        body_label == LabelName(g1, "for_body")
        g2 == NewLabel(g1)
        end_label == LabelName(g2, "for_end")
        g3 == NewLabel(g2)
        g4 == [g3 EXCEPT !.loop_stack = Append(@, LoopLabels(start_label, end_label))]
        g5 == Def(g4, s, "alloca", <<"i64">>)
        loop_var == g5.reg
        init(h, val) == Emit(h, Line(s, "store", "", <<"i64", val, h.reg>>))
        g6 == init(g5, start_val)
        g7 == Def(g6, s, "alloca", <<"i64">>)
        end_ptr == g7.reg
        g8 == init(g7, end_val)
        g9 == [g8 EXCEPT !.current_function_vars =
                  Insert(@, node.variable, VarMetadata(loop_var, "int", FALSE, None, FALSE))]
        g10 == Emit(g9, Line(s, "br", "", <<start_label>>))
        g11 == Emit(g10, Line(s, "label", "", <<start_label>>))
        g12 == Def(g11, s, "load", <<"i64", loop_var>>)
        compare(h, cur) == Def(h, s, "icmp slt", <<"i64", cur, h.reg>>)
        bound(h) == compare(Def(h, s, "load", <<"i64", end_ptr>>), h.reg)
        g14 == bound(g12)
        test(h) == Emit(h, Line(s, "br", "", <<h.reg, body_label, end_label>>))
        g15 == test(g14)
        g16 == Emit(g15, Line(s, "label", "", <<body_label>>))
        g17 == GenNode(g16, node.body)
        g18 == Def(g17, s, "load", <<"i64", loop_var>>)
        next(h) == Def(h, s, "add", <<"i64", h.reg, "1">>)
        step(h) == Emit(h, Line(s, "store", "", <<"i64", h.reg, loop_var>>))
        g20 == step(next(g18))
        g21 == Emit(g20, Line(s, "br", "", <<start_label>>))
        g22 == Emit(g21, Line(s, "label", "", <<end_label>>))
    IN Ret([InOrder(<<ga, gb, g11, g17, g22>>)
              EXCEPT !.loop_stack = SubSeq(@, 1, Len(@) - 1)], "0")

\* AstNode::Break (codegen.rs:1621-1628)
GenBreak(g) ==
    IF g.loop_stack # << >>
    THEN Ret([Emit(g, Line("Break", "br", "", <<g.loop_stack[Len(g.loop_stack)].break_label>>))
                EXCEPT !.block_terminated = TRUE], "0")
    ELSE Ret(g, "0")

\* AstNode::Continue (codegen.rs:1630-1637)
GenContinue(g) ==
    IF g.loop_stack # << >>
    THEN Ret([Emit(g, Line("Continue", "br", "",
                           <<g.loop_stack[Len(g.loop_stack)].continue_label>>))
                EXCEPT !.block_terminated = TRUE], "0")
    ELSE Ret(g, "0")

\* AstNode::Return (codegen.rs:1639-1651)
GenReturn(g, node) ==
    LET g1 == IF IsSome(node.value)
              THEN LET v == GenNode(g, Unwrap(node.value))
                   IN Emit(v, Line("Return", "ret", "",
                                   <<v.current_function_return_type, v.reg>>))
              ELSE IF g.current_function_return_type = "void"
              THEN Emit(g, Line("Return", "ret", "", <<"void">>))
              ELSE Emit(g, Line("Return", "ret", "", <<"i64", "0">>))
    IN Ret([g1 EXCEPT !.block_terminated = TRUE], "0")

\* the statement loop of AstNode::Block (codegen.rs:1657-1659)
RECURSIVE GenStmts(_, _)
GenStmts(g, stmts) ==
    IF stmts = << >> THEN Ret(g, "")
    ELSE GenNode(GenStmts(g, SubSeq(stmts, 1, Len(stmts) - 1)), stmts[Len(stmts)])

\* the free sequence of one binding at block exit (codegen.rs:1674-1704)
FreeBinding(g, meta) ==
    LET s == "Block"
        free(h) == Emit(h, Line(s, "call", "", <<"void", "free", h.reg>>))
    IN IF ContainsKey(g.struct_types, meta.var_type)
       THEN LET g1 == Def(g, s, "load", <<"%" \o meta.var_type \o "*", meta.llvm_name>>)
                cast(h) == Def(h, s, "bitcast", <<"%" \o meta.var_type \o "*", h.reg, "i8*">>)
            IN free(cast(g1))
       ELSE IF meta.var_type = "Vec"
       THEN LET field(h) == Def(h, s, "bitcast", <<"i8*", h.reg, "i8**">>)
                data(h) == Def(h, s, "load", <<"i8*", h.reg>>)
                buffers(g1) ==
                    LET g2 == Def(g1, s, "getelementptr", <<"i8", g1.reg, "16">>)
                        g5 == free(data(field(g2)))
                    IN Emit(g5, Line(s, "call", "", <<"void", "free", g1.reg>>))
            IN buffers(Def(g, s, "load", <<"i8*", meta.llvm_name>>))
       ELSE free(Def(g, s, "load", <<"i8*", meta.llvm_name>>))

RECURSIVE FreeBindings(_, _)
FreeBindings(g, metas) ==
    IF metas = << >> THEN g
    ELSE LET rest(g1) == InOrder(<<g1, FreeBindings(g1, Tail(metas))>>)
         IN rest(FreeBinding(g, Head(metas)))

\* AstNode::Block (codegen.rs:1653-1709)
GenBlock(g, node) ==
    LET vars_before == g.current_function_vars
        exit(g1) ==
          LET last_reg == g1.reg
              fvars == g1.current_function_vars
              names == { n \in DOMAIN fvars :
                            /\ fvars[n].is_heap
                            /\ ~fvars[n].is_string_literal
                            /\ ~ContainsKey(vars_before, n) }
              order == IterOrder(g1, names)
              vars_to_free == [i \in DOMAIN order |-> fvars[order[i]]]
          IN IF ~g1.block_terminated
             THEN Ret(FreeBindings(g1, vars_to_free), last_reg)
             ELSE Ret(g1, last_reg)
    IN exit(GenStmts(g, node.stmts))

\* is_pointer_llvm_type (codegen.rs:2255-2259)
IsPointerLlvmType(ty) ==
    \/ ty \in {"string", "Vec"}
    \/ StartsWithBracket(ty)
    \/ (ty \notin {"int", "bool", "char", "void"} /\ ty # "")

\* one entry of the parameter list of the `define` line (codegen.rs:2447-2494)
ParamText(g, p) ==
    LET text(sp) ==
          LET inner_type == sp[3]
              type_is_ref == sp[1] \/ p.is_reference
              type_is_mut == sp[2] \/ p.is_mutable
              param_type_str ==
                  IF type_is_ref
                  THEN IF StartsWithBracket(inner_type)
                       THEN "[" \o ToString(ArraySizeOf(inner_type)) \o " x i64]*"
                       ELSE TypeToLlvm(g, inner_type) \o "*"
                  ELSE TypeToLlvm(g, p.param_type)
              is_simple_ptr == type_is_ref /\ ~StartsWithBracket(inner_type)
              is_owned_ptr == ~type_is_ref /\ IsPointerLlvmType(p.param_type)
                              /\ ~type_is_mut
              attrs == IF is_simple_ptr
                       THEN (IF ~type_is_mut THEN "noalias readonly" ELSE "noalias")
                       ELSE IF is_owned_ptr THEN "noalias readonly" ELSE ""
          IN IF attrs = "" THEN param_type_str \o " %arg_" \o p.name
             ELSE param_type_str \o " " \o attrs \o " %arg_" \o p.name
    IN text(StripRefPrefix(p.param_type))

\* the parameter binding loop of gen_function (codegen.rs:2513-2567)
RECURSIVE BindParams(_, _)
BindParams(g, params) ==
    IF params = << >> THEN g
    ELSE LET p == Head(params)
             sp == StripRefPrefix(p.param_type)
             inner_type == sp[3]
             type_is_ref == sp[1] \/ p.is_reference
             g1 ==
               IF type_is_ref
               THEN [g EXCEPT !.current_function_vars =
                       Insert(@, p.name,
                              VarMetadata("%arg_" \o p.name, inner_type, FALSE,
                                          IF StartsWithBracket(inner_type)
                                          THEN Some(ArraySizeOf(inner_type)) ELSE None,
                                          FALSE))]
               ELSE LET param_type_str == TypeToLlvm(g, p.param_type)
                        a1 == Def(g, "gen_function", "alloca", <<param_type_str>>)
                        a2 == Emit(a1, Line("gen_function", "store", "",
                                            <<param_type_str, "%arg_" \o p.name, a1.reg>>))
                    IN [a2 EXCEPT !.current_function_vars =
                           Insert(@, p.name,
                                  VarMetadata(a1.reg, p.param_type, FALSE, None, FALSE))]
         IN BindParams(g1, Tail(params))

\* the non_escaping set of gen_function (codegen.rs:2417-2427)
NonEscaping(params, body) ==
    LET escaping == EscapeAnalyze(params, body)
    IN IF body.k = "Block"
       THEN { s.name : s \in { x \in Range(body.stmts) :
                                  x.k = "LetBinding" /\ x.name \notin escaping } }
       ELSE {}

\* gen_function (codegen.rs:2406-2580)
GenFunction(g, node) ==
    LET name == node.name
        g0 == [g EXCEPT !.current_function_vars = EmptyMap,
                        !.temp_counter = 0,
                        !.label_counter = 0,
                        !.non_escaping = NonEscaping(node.params, node.body)]
        ret_type == IF name = "main" THEN "i32"
                    ELSE IF IsSome(node.return_type)
                    THEN TypeToLlvm(g0, Unwrap(node.return_type))
                    ELSE "void"
        g1 == [g0 EXCEPT !.function_signatures = Insert(@, name, ret_type),
                         !.current_function_name = name,
                         !.current_function_return_type = ret_type]
        define(h) ==
          LET param_list == [i \in DOMAIN node.params |-> ParamText(h, node.params[i])]
              fn_attrs == IF name # "main" /\ name \in h.pure_functions
                          THEN "nounwind readonly willreturn" ELSE "nounwind"
          IN Emit(h, Line("gen_function", "define", MangleFn(name),
                          <<ret_type, fn_attrs>> \o param_list))
        g2 == define(g1)
        g3 == Emit(g2, Line("gen_function", "label", "", <<"entry">>))
        g4 == BindParams(g3, node.params)
        g5 == GenNode([g4 EXCEPT !.block_terminated = FALSE], node.body)
        return(h) ==
          IF name = "main" /\ ~h.block_terminated
          THEN Emit(h, Line("gen_function", "ret", "", <<"i32", "0">>))
          ELSE IF ret_type = "void" /\ ~h.block_terminated
          THEN Emit(h, Line("gen_function", "ret", "", <<"void">>))
          ELSE h
        g6 == return(g5)
    IN Ret(Emit(g6, Line("gen_function", "}", "", << >>)), "")

\* gen_node takes the generator as the calls before it left it: TLC computes
\* an argument when it is first read, and the test reads `g` on entry
GenNode(g, node) ==
    IF g.reg # g.reg THEN g
    ELSE
        CASE node.k = "Import" -> Ret(g, "0")
          [] node.k = "StructDef" -> Ret(g, "0")
          [] node.k = "StructInit" -> GenStructInit(g, node)
          [] node.k = "MemberAccess" -> GenMemberAccess(g, node)
          [] node.k = "EnumDef" -> GenEnumDef(g, node)
          [] node.k = "EnumValue" -> GenEnumValue(g, node)
          [] node.k = "Match" -> GenMatch(g, node)
          [] node.k = "FunctionDef" -> GenFunction(g, node)
          [] node.k = "LetBinding" -> GenLetBinding(g, node)
          [] node.k = "ArrayAssignment" -> GenArrayAssignment(g, node)
          [] node.k = "Assignment" -> GenAssignment(g, node)
          [] node.k = "If" -> GenIf(g, node)
          [] node.k = "While" -> GenWhile(g, node)
          [] node.k = "For" -> GenFor(g, node)
          [] node.k = "Break" -> GenBreak(g)
          [] node.k = "Continue" -> GenContinue(g)
          [] node.k = "Return" -> GenReturn(g, node)
          [] node.k = "Block" -> GenBlock(g, node)
          [] node.k = "ExpressionStatement" -> GenNode(g, node.e)
          [] node.k = "BinaryOp" -> GenBinaryOp(g, node)
          [] node.k = "UnaryOp" -> GenUnaryOp(g, node)
          [] node.k = "Number" -> Ret(g, ToString(node.n))
          [] node.k = "Boolean" -> Ret(g, IF node.b THEN "1" ELSE "0")
          [] node.k = "Character" -> Ret(g, ToString(node.c))
          [] node.k = "StringLit" -> GenStringLit(g, node)
          [] node.k = "ArrayLit" -> GenArrayLit(g, node)
          [] node.k = "Index" -> GenIndex(g, node)
          [] node.k = "Identifier" -> GenIdentifier(g, node)
          [] node.k = "Reference" -> GenReference(g, node)
          [] node.k = "Call" -> GenCall(g, node)
          [] node.k = "MethodCall" -> GenMethodCall(g, node)
          [] OTHER -> Ret(g, "0")

-----------------------------------------------------------------------------
(* The passes of generate (codegen.rs:243-313)                             *)

\* the struct registration sweep (codegen.rs:244-254)
RECURSIVE RegisterStructTypes(_, _)
RegisterStructTypes(g, nodes) ==
    IF nodes = << >> THEN g
    ELSE LET n == Head(nodes)
             g1 == IF n.k = "StructDef"
                   THEN [g EXCEPT !.struct_types = Insert(@, n.name, n.fields)]
                   ELSE g
         IN RegisterStructTypes(g1, Tail(nodes))

\* the purity sweep (codegen.rs:256-267)
PureFunctions(nodes) ==
    { n.name : n \in { x \in Range(nodes) :
                         x.k = "FunctionDef" /\ InferPurity(x.params, x.body) } }

\* the struct declaration loop over the struct_types map (codegen.rs:279-287)
StructDecls(g) ==
    LET order == IterOrder(g, DOMAIN g.struct_types)
    IN [i \in DOMAIN order |->
          LET fields == g.struct_types[order[i]]
          IN Line("generate", "type", "%" \o order[i],
                  [j \in DOMAIN fields |-> TypeToLlvm(g, fields[j].field_type)])]

\* the routines emit_header defines or declares for the Linux target
\* (codegen.rs:612-1049); their bodies are fixed text and are left out
PreludeFunctions ==
    << "malloc", "realloc", "free", "strlen", "strcmp", "strcpy", "puts", "fopen",
       "fclose", "fread", "fwrite", "fseek", "ftell", "int_to_string_stack",
       "int_to_string_impl", "brn_print_int", "read_file_impl", "write_file_impl",
       "vec_new_impl", "vec_push_impl", "vec_get_impl", "vec_set_impl", "vec_len_impl" >>

\* a string body is the sequence of its bytes
ModeR == <<114>>
ModeW == <<119>>

\* emit_header (codegen.rs:427-1055)
EmitHeader(g) ==
    LET g1 == Emit(g, Line("emit_header", "declare", "syscall", << >>))
        g2 == EmitAll(g1, [i \in DOMAIN PreludeFunctions |->
                              Line("emit_header", "define", PreludeFunctions[i], << >>)])
    IN [g2 EXCEPT !.string_literals = @ \o << <<".str.mode.r", ModeR>>,
                                             <<".str.mode.w", ModeW>> >>]

HexDigit(d) == <<"0", "1", "2", "3", "4", "5", "6", "7", "8", "9",
                 "a", "b", "c", "d", "e", "f">>[d + 1]

\* escape_string (codegen.rs:2752-2766), byte by byte; a byte copied verbatim
\* is written "'" followed by its code
EscapeByte(c) ==
    CASE c = 10 -> "\\0A"
      [] c = 13 -> "\\0D"
      [] c = 9 -> "\\09"
      [] c = 92 -> "\\5C"
      [] c = 34 -> "\\22"
      [] c >= 32 /\ c <= 126 -> "'" \o ToString(c)
      [] OTHER -> "\\" \o HexDigit(c \div 16) \o HexDigit(c % 16)

EscapeString(s) == [i \in DOMAIN s |-> EscapeByte(s[i])]

Reverse(s) == [i \in DOMAIN s |-> s[Len(s) + 1 - i]]

\* emit_footer (codegen.rs:1057-1069): every constant, then every struct
\* declaration, is put in front of the text emitted so far
EmitFooter(g) ==
    LET consts == [i \in DOMAIN g.string_literals |->
                     Line("emit_footer", "constant", "@" \o g.string_literals[i][1],
                          <<ToString(Len(g.string_literals[i][2]) + 1)>>
                          \o EscapeString(g.string_literals[i][2]))]
        decls == g.struct_decls
    IN [g EXCEPT !.output = decls \o Reverse(consts) \o @]

\* get_target_triple (codegen.rs:38-46), Linux target
GetTargetTriple == "x86_64-pc-linux-gnu"

\* build_output (codegen.rs:2768-2774)
BuildOutput(g) ==
    <<Line("build_output", "target triple", "", <<GetTargetTriple>>)>> \o g.output

\* the item loop without the reachability test
GenItemAll(g, node, reach) == GenNode(g, node)

\* one iteration of the item loop of generate (codegen.rs:292-308)
GenItem(g, node, reach) ==
    IF node.k \in {"FunctionDef", "LetBinding"} /\ node.name \notin reach
    THEN g
    ELSE GenNode(g, node)

Seeds == 0..(NumSeeds - 1)
WithSeed(g, seed) == [g EXCEPT !.iter_seed = seed]

-----------------------------------------------------------------------------
(* The input programs.  A program is the item list of AstNode::Program.    *)
(* Function bodies are drawn from the statement grammar below: every       *)
(* identifier is bound before it is used, no name is bound twice in one    *)
(* scope, break and continue occur inside loops only, the blocks of an if, *)
(* a loop or a match hold simple statements, and a body has at most        *)
(* MaxSize statements, nested ones included.                               *)

LitA == <<97>>         \* the string literal "a"
LitB == <<98>>         \* the string literal "b"

Stmt(node, binds) == [node |-> node, binds |-> binds]

CallStmt(name, args) == ExpressionStatement(Call(name, args))

When(cond, S) == IF cond THEN S ELSE {}

\* the simple statements available where `env` is bound, in a function
\* returning `ret`, inside a loop or not.  A function returning nothing works
\* on strings and vectors, one returning a string on literals and their
\* concatenation, one returning a struct on structs.
Atoms(env, ret, loop) ==
    (CASE ret = "void" ->
            When("s" \notin env, {Stmt(LetBinding("s", StringLit(LitA)), {"s"})})
            \cup When("s" \in env /\ "t" \notin env,
                      {Stmt(LetBinding("t", Identifier("s")), {"t"})})
            \cup When("u" \notin env,
                      {Stmt(LetBinding("u", Call("int_to_string", <<Number(1)>>)), {"u"})})
            \cup When("v" \notin env,
                      {Stmt(LetBinding("v", Call("vec_new", << >>)), {"v"})})
            \cup When("u" \in env, {Stmt(CallStmt("print", <<Identifier("u")>>), {})})
            \cup When("t" \in env, {Stmt(CallStmt("use", <<Identifier("t")>>), {})})
            \cup When("v" \in env,
                      {Stmt(ExpressionStatement(
                               MethodCall(Identifier("v"), "push", <<Number(1)>>)), {})})
            \cup {Stmt(CallStmt("println", <<StringLit(LitA)>>), {}),
                  Stmt(Return(None), {})}
       [] ret = "string" ->
            When("s" \notin env, {Stmt(LetBinding("s", StringLit(LitA)), {"s"})})
            \cup When("s" \in env /\ "c" \notin env,
                      {Stmt(LetBinding("c", BinaryOp("Add", Identifier("s"),
                                                     StringLit(LitB))), {"c"})})
            \cup {Stmt(Return(Some(Identifier(x))), {}) : x \in {"s", "c"} \cap env}
       [] OTHER ->
            When("a" \notin env,
                 {Stmt(LetBinding("a", StructInit("P", <<FieldInit("x", Number(1))>>)),
                       {"a"})})
            \cup When("a" \in env /\ "b" \notin env,
                      {Stmt(LetBinding("b", Identifier("a")), {"b"})})
            \cup {Stmt(Return(Some(Identifier(x))), {}) : x \in {"a", "b"} \cap env})
    \cup When(loop, {Stmt(Break, {}), Stmt(Continue, {})})

\* the lists of exactly n simple statements
RECURSIVE Simple(_, _, _, _)
Simple(env, ret, loop, n) ==
    IF n = 0 THEN {<< >>}
    ELSE UNION {{<<st.node>> \o rest : rest \in Simple(env \cup st.binds, ret, loop, n - 1)} :
                   st \in Atoms(env, ret, loop)}

\* the compound statements of exactly n statements: an if, a loop or a match
\* around blocks of simple statements
Compounds(env, ret, n) ==
    IF n < 2 THEN {}
    ELSE {Stmt(If(Boolean(TRUE), Block(b), None), {}) : b \in Simple(env, ret, FALSE, n - 1)}
         \cup UNION {{Stmt(If(Boolean(TRUE), Block(b1), Some(Block(b2))), {}) :
                         b1 \in Simple(env, ret, FALSE, k),
                         b2 \in Simple(env, ret, FALSE, n - 1 - k)} : k \in 1..(n - 2)}
         \cup {Stmt(While(Boolean(TRUE), Block(b)), {}) : b \in Simple(env, ret, TRUE, n - 1)}
         \cup {Stmt(For("i", BinaryOp("DotDot", Number(0), Number(2)), Block(b)), {}) :
                  b \in Simple(env, ret, TRUE, n - 1)}
         \cup {Stmt(Match(Number(1), <<MatchArm(NumberPattern(1), Block(b)),
                                        MatchArm(Wildcard, Block(<< >>))>>), {}) :
                  b \in Simple(env, ret, FALSE, n - 1)}

Stmts(env, ret, n) ==
    IF n = 1 THEN Atoms(env, ret, FALSE) ELSE Compounds(env, ret, n)

\* the function bodies of exactly n statements
RECURSIVE Bodies(_, _, _)
Bodies(env, ret, n) ==
    IF n = 0 THEN {<< >>}
    ELSE UNION {UNION {{<<st.node>> \o rest :
                           rest \in Bodies(env \cup st.binds, ret, n - k)} :
                       st \in Stmts(env, ret, k)} : k \in 1..n}

BodiesUpTo(ret, n) == UNION {Bodies({}, ret, k) : k \in 0..n}

\* the items every such program starts with: a struct and an opaque function
\* taking a string
StructP == StructDef("P", <<Field("x", "int")>>)
StructQ == StructDef("Q", <<Field("y", "int")>>)
FnUse == FunctionDef("use", <<Parameter("p", "string", FALSE, FALSE)>>, Block(<< >>), None)
Prefix == <<StructP, FnUse>>

\* programs whose subject is one function body: main itself, or a function
\* mk returning a string or a struct that main calls
BodyPrograms ==
    {Prefix \o <<FunctionDef("main", << >>, Block(b), None)>> : b \in BodiesUpTo("void", MaxSize)}
    \cup {Prefix \o <<FunctionDef("mk", << >>, Block(b), Some("string")),
                      FunctionDef("main", << >>,
                                  Block(<<CallStmt("print", <<Call("mk", << >>)>>)>>), None)>> :
             b \in BodiesUpTo("string", MaxSize)}
    \cup {Prefix \o <<FunctionDef("mk", << >>, Block(b), Some("P")),
                      FunctionDef("main", << >>,
                                  Block(<<LetBinding("r", Call("mk", << >>))>>), None)>> :
             b \in BodiesUpTo("P", MaxSize)}

\* programs whose subject is the call graph: main, f and g call one another
\* and the top-level bindings h and k from every position a call can take
CallSites(x) ==
    LET c == Call(x, << >>)
    IN {CallStmt(x, << >>),
        CallStmt(x, <<Call(x, << >>)>>),
        LetBinding("n", c),
        LetBinding("n", UnaryOp("Negate", c)),
        LetBinding("n", BinaryOp("Add", Number(1), c)),
        LetBinding("n", ArrayLit(<<c>>)),
        LetBinding("n", StructInit("P", <<FieldInit("x", c)>>)),
        LetBinding("n", Index(Identifier("w"), c)),
        LetBinding("n", MemberAccess(c, "x")),
        LetBinding("n", EnumValue("E", "V", Some(c))),
        LetBinding("n", MethodCall(Identifier("w"), "get", <<c>>)),
        Assignment("n", c),
        ArrayAssignment("w", c, Number(0)),
        CallStmt("print", <<Reference(c)>>),
        If(BinaryOp("Equal", c, Number(0)), Block(<< >>), None),
        If(Boolean(TRUE), Block(<<CallStmt(x, << >>)>>), None),
        If(Boolean(TRUE), Block(<< >>), Some(Block(<<CallStmt(x, << >>)>>))),
        While(BinaryOp("LessThan", c, Number(0)), Block(<< >>)),
        While(Boolean(FALSE), Block(<<CallStmt(x, << >>)>>)),
        For("i", BinaryOp("DotDot", Number(0), c), Block(<< >>)),
        For("i", BinaryOp("DotDot", Number(0), Number(1)), Block(<<CallStmt(x, << >>)>>)),
        Match(c, <<MatchArm(Wildcard, Block(<< >>))>>),
        Match(Number(1), <<MatchArm(NumberPattern(1), Block(<<CallStmt(x, << >>)>>)),
                           MatchArm(Wildcard, Block(<< >>))>>),
        Return(Some(c))}

Callees(S) == {<< >>} \cup {<<CallStmt(x, << >>)>> : x \in S}

CallGraphPrograms ==
    {<<EnumDef("E", <<[name |-> "V"]>>), StructP, StructQ,
       FunctionDef("f", << >>, Block(bf), None),
       FunctionDef("g", << >>, Block(bg), None),
       LetBinding("h", Number(7)),
       LetBinding("k", Number(9)),
       FunctionDef("main", << >>, Block(<<st>>), None)>> :
        bf \in Callees({"f", "g", "k"}), bg \in Callees({"f", "h"}),
        st \in UNION {CallSites(x) : x \in {"f", "g", "h"}}}

\* files that define no entry point: a library of definitions
LibraryPrograms ==
    {Prefix,
     <<FunctionDef("f", << >>, Block(<<CallStmt("println", <<StringLit(LitA)>>)>>), None)>>}

\* programs whose subject is a type annotation: a sized array taken by value
\* and by reference
ArrayPrograms ==
    {<<FunctionDef("f", <<Parameter("a", ArrayTypeName(n), FALSE, FALSE)>>, Block(<< >>), None),
       FunctionDef("g", <<Parameter("a", "&" \o ArrayTypeName(n), FALSE, FALSE)>>,
                   Block(<< >>), None),
       FunctionDef("main", << >>,
                   Block(<<LetBinding("w", ArrayLit([i \in 1..n |-> Number(i)])),
                           CallStmt(x, <<arg>>)>>), None)>> :
        n \in 1..MaxArrayLen,
        x \in {"f", "g"},
        arg \in {Identifier("w"), Reference(Identifier("w"))}}

\* programs whose subject is a definition nothing calls: `unused` at every
\* position among the items of a program that prints
FnUnused ==
    FunctionDef("unused", << >>,
                Block(<<LetBinding("s", BinaryOp("Add", StringLit(LitB), StringLit(LitA))),
                        CallStmt("unused", << >>)>>), Some("string"))

InsertAt(s, k, x) == SubSeq(s, 1, k) \o <<x>> \o SubSeq(s, k + 1, Len(s))

DeadCodePrograms ==
    LET base == <<StructP,
                  FunctionDef("f", << >>, Block(<<CallStmt("println", <<StringLit(LitA)>>)>>), None),
                  FunctionDef("main", << >>,
                              Block(<<CallStmt("println", <<StringLit(LitB)>>),
                                      CallStmt("f", << >>)>>), None)>>
    IN {InsertAt(base, k, FnUnused) : k \in 0..Len(base)}

\* programs whose subject is a sum type: main constructs a variant of E and
\* matches on it, and E is declared before or after main
EnumPrograms ==
    LET decl == EnumDef("E", <<[name |-> "A"], [name |-> "B"]>>)
        arm(v, i) == MatchArm(EnumPattern("E", v, None),
                              Block(<<CallStmt("print", <<Number(i)>>)>>))
        main(v, first, second) ==
            FunctionDef("main", << >>,
                        Block(<<LetBinding("x", EnumValue("E", v, None)),
                                Match(Identifier("x"), <<arm(first, 1), arm(second, 2)>>)>>), None)
    IN {InsertAt(<<main(v, ps[1], ps[2])>>, k, decl) :
           v \in {"A", "B"}, ps \in {<<"A", "B">>, <<"B", "A">>}, k \in {0, 1}}

\* programs that concatenate strings: the operand x of + is bound to a
\* literal or to the result of int_to_string in main, or is a parameter of a
\* function cat that main calls; the result is dropped, printed or passed on
ConcatSums(x) ==
    {BinaryOp("Add", Identifier(x), StringLit(LitB)),
     BinaryOp("Add", StringLit(LitB), Identifier(x))}

ConcatTails ==
    {<< >>, <<CallStmt("print", <<Identifier("c")>>)>>,
     <<CallStmt("use", <<Identifier("c")>>)>>}

ConcatPrograms ==
    {Prefix \o <<FunctionDef("main", << >>,
                             Block(<<LetBinding("x", init), LetBinding("c", sum)>> \o tail),
                             None)>> :
        init \in {StringLit(LitA), Call("int_to_string", <<Number(1)>>)},
        sum \in ConcatSums("x"), tail \in ConcatTails}
    \cup {Prefix \o <<FunctionDef("cat", <<Parameter("p", "string", FALSE, FALSE)>>,
                                  Block(<<LetBinding("c", sum)>> \o tail), None),
                      FunctionDef("main", << >>,
                                  Block(<<CallStmt("cat", <<StringLit(LitA)>>)>>), None)>> :
             sum \in ConcatSums("p"), tail \in ConcatTails}

\* programs whose subject is what a function does: main calls f, and f and
\* g do nothing, print, push onto a vector, or call the other
EffectBodies(other) ==
    {<< >>,
     <<CallStmt(other, << >>)>>,
     <<CallStmt("println", <<StringLit(LitA)>>)>>,
     <<LetBinding("v", Call("vec_new", << >>)),
       ExpressionStatement(MethodCall(Identifier("v"), "push", <<Number(1)>>))>>}

EffectPrograms ==
    {<<FunctionDef("f", << >>, Block(bf), None),
       FunctionDef("g", << >>, Block(bg), None),
       FunctionDef("main", << >>, Block(<<CallStmt("f", << >>)>>), None)>> :
        bf \in EffectBodies("g"), bg \in EffectBodies("f")}

Programs ==
    BodyPrograms \cup CallGraphPrograms \cup LibraryPrograms \cup ArrayPrograms
    \cup DeadCodePrograms \cup EnumPrograms \cup ConcatPrograms \cup EffectPrograms

-----------------------------------------------------------------------------
(* compile_file (main.rs:44-156) as a state machine: one step per stage.   *)
(* The lexer, the parser and the semantic analyzer hand the driver Ok or   *)
(* Err; `ast` is the Program the front end yields when every stage is Ok.  *)
(* generate (codegen.rs:243-313) takes one step per pass and one per       *)
(* iteration of the item loop.  `ir` is the String it returns.             *)

\* the process before compile_file has touched anything
NewProcess ==
    [ll_file |-> None, clang |-> "not started", stderr |-> "", exit_code |-> None]

\* nothing of the emitted module is run while it is being compiled
NoMachine == [status |-> "off"]

Init ==
    /\ ast \in Programs
    /\ cg = NewCodeGenerator
    /\ reachable = {}
    /\ item = 0
    /\ ir = None
    /\ pc = "read"
    /\ drv = NewProcess
    /\ vm = NoMachine

\* eprintln! followed by process::exit(1): nothing of compile_file runs after it
Fail(message) ==
    /\ drv' = [drv EXCEPT !.stderr = message, !.exit_code = Some(1)]
    /\ pc' = "exit"
    /\ UNCHANGED <<ast, cg, reachable, item, ir, vm>>

\* a stage that succeeded hands over to the next one
Proceed(next) ==
    /\ pc' = next
    /\ UNCHANGED <<ast, cg, reachable, item, ir, drv, vm>>

\* main.rs:47-53
ReadSource ==
    /\ pc = "read"
    /\ \E ok \in BOOLEAN : IF ok THEN Proceed("lex") ELSE Fail("Could not read file")

\* main.rs:55-63
Tokenize ==
    /\ pc = "lex"
    /\ \E ok \in BOOLEAN : IF ok THEN Proceed("parse") ELSE Fail("lex error")

\* main.rs:65-73
Parse ==
    /\ pc = "parse"
    /\ \E ok \in BOOLEAN : IF ok THEN Proceed("imports") ELSE Fail("parse error")

\* main.rs:75-83
ResolveImports ==
    /\ pc = "imports"
    /\ \E ok \in BOOLEAN : IF ok THEN Proceed("semantic") ELSE Fail("import error")

\* main.rs:85-90; on Ok the driver constructs the generator and calls generate
Analyze ==
    /\ pc = "semantic"
    /\ \E ok \in BOOLEAN : IF ok THEN Proceed("structs") ELSE Fail("semantic error")

\* codegen.rs:244-254
RegisterStructs ==
    /\ pc = "structs"
    /\ cg' = RegisterStructTypes(cg, ast)
    /\ pc' = "purity"
    /\ UNCHANGED <<ast, reachable, item, ir, drv, vm>>

\* codegen.rs:256-267
InferPurities ==
    /\ pc = "purity"
    /\ cg' = [cg EXCEPT !.pure_functions = PureFunctions(ast)]
    /\ pc' = "reachable"
    /\ UNCHANGED <<ast, reachable, item, ir, drv, vm>>

\* codegen.rs:273-277
Reach ==
    /\ pc = "reachable"
    /\ reachable' = CollectReachable(ast)
    /\ pc' = "decls"
    /\ UNCHANGED <<ast, cg, item, ir, drv, vm>>

\* codegen.rs:279-287
DeclareStructs ==
    /\ pc = "decls"
    /\ \E seed \in Seeds :
          cg' = [cg EXCEPT !.struct_decls = @ \o StructDecls(WithSeed(cg, seed))]
    /\ pc' = "header"
    /\ UNCHANGED <<ast, reachable, item, ir, drv, vm>>

\* codegen.rs:289
Header ==
    /\ pc = "header"
    /\ cg' = EmitHeader(cg)
    /\ item' = 1
    /\ pc' = "items"
    /\ UNCHANGED <<ast, reachable, ir, drv, vm>>

\* codegen.rs:291-309, one iteration
Item ==
    /\ pc = "items"
    /\ item <= Len(ast)
    /\ \E seed \in Seeds :
          cg' = WithSeed(GenItem(WithSeed(cg, seed), ast[item], reachable), 0)
    /\ item' = item + 1
    /\ UNCHANGED <<ast, reachable, ir, pc, drv, vm>>

\* codegen.rs:311
Footer ==
    /\ pc = "items"
    /\ item > Len(ast)
    /\ cg' = EmitFooter(cg)
    /\ pc' = "build"
    /\ UNCHANGED <<ast, reachable, item, ir, drv, vm>>

\* codegen.rs:312
Build ==
    /\ pc = "build"
    /\ ir' = Some(BuildOutput(cg))
    /\ pc' = "done"
    /\ UNCHANGED <<ast, cg, reachable, item, drv, vm>>

\* the bytes of "define i32 @main()" as escape_string writes them
MainSignature ==
    EscapeString(<<100, 101, 102, 105, 110, 101, 32, 105, 51, 50, 32, 64, 109,
                   97, 105, 110, 40, 41>>)

\* `needle` occurs in `hay` as a run of consecutive elements
IsInfix(needle, hay) ==
    \E at \in 0..(Len(hay) - Len(needle)) :
        \A i \in DOMAIN needle : hay[at + i] = needle[i]

\* llvm_ir.contains("define i32 @main()") (main.rs:97): the text is the start
\* of the define line gen_function writes for a main without parameters, or
\* part of the bytes of a string constant
HasMain(text) ==
    \E i \in DOMAIN text :
        \/ /\ text[i].op = "define"
           /\ text[i].site = "gen_function"
           /\ text[i].def = "main"
           /\ text[i].args[1] = "i32"
           /\ Len(text[i].args) = 2
        \/ /\ text[i].op = "constant"
           /\ IsInfix(MainSignature, text[i].args)

\* the driver without the test of main.rs:97-103
CheckMainSkipped ==
    /\ pc = "done"
    /\ Proceed("write")

\* main.rs:97-103
CheckMain ==
    /\ pc = "done"
    /\ IF HasMain(Unwrap(ir)) THEN Proceed("write") ELSE Fail("no 'main' function found")

\* main.rs:105-111
WriteIr ==
    /\ pc = "write"
    /\ \E ok \in BOOLEAN :
          IF ok
          THEN /\ drv' = [drv EXCEPT !.ll_file = ir]
               /\ pc' = "link"
               /\ UNCHANGED <<ast, cg, reachable, item, ir, vm>>
          ELSE Fail("Error writing LLVM IR")

\* main.rs:116-155: Command::output starts clang and waits for it.  When
\* clang cannot be started the driver prints and returns, and main returns
\* after it
Link ==
    /\ pc = "link"
    /\ \E result \in {"success", "failure", "not found"} :
          /\ drv' = CASE result = "success" ->
                          [drv EXCEPT !.clang = "exited zero", !.exit_code = Some(0)]
                       [] result = "failure" ->
                          [drv EXCEPT !.clang = "exited non-zero",
                                      !.stderr = "Error during linking",
                                      !.exit_code = Some(1)]
                       [] result = "not found" ->
                          [drv EXCEPT !.clang = "failed to start",
                                      !.stderr = "clang not found",
                                      !.exit_code = Some(0)]
          /\ pc' = "exit"
          /\ UNCHANGED <<ast, cg, reachable, item, ir, vm>>

Next ==
    \/ ReadSource
    \/ Tokenize
    \/ Parse
    \/ ResolveImports
    \/ Analyze
    \/ RegisterStructs
    \/ InferPurities
    \/ Reach
    \/ DeclareStructs
    \/ Header
    \/ Item
    \/ Footer
    \/ Build
    \/ CheckMain
    \/ WriteIr
    \/ Link

Spec == Init /\ [][Next]_vars

-----------------------------------------------------------------------------
(* Reading the emitted IR                                                  *)

\* the module generate returned, once it has
Module == IF pc = "done" THEN Unwrap(ir) ELSE << >>

\* the positions <<d, e>> of the `define` line and the closing line of each
\* function gen_function emitted into `out`
Functions(out) ==
    LET defs == { i \in DOMAIN out : out[i].op = "define" /\ out[i].site = "gen_function" }
        ends == { i \in DOMAIN out : out[i].op = "}" }
    IN { <<d, CHOOSE e \in ends : e > d /\ \A x \in ends : x > d => e <= x>> : d \in defs }

\* the lines of one function, from its entry label to the line before `}`
BodyOf(out, f) == SubSeq(out, f[1] + 1, f[2] - 1)

Terminators == {"ret", "br", "unreachable"}

IsFree(line) == line.op = "call" /\ Len(line.args) = 3 /\ line.args[2] = "free"

\* the registers of `body` that hold a value of `roots`: the roots, what is
\* loaded from a slot one of them was stored to, and their bitcasts
RECURSIVE DerivedFrom(_, _)
DerivedFrom(body, roots) ==
    LET slots == { body[i].args[3] :
                      i \in { j \in DOMAIN body :
                                 body[j].op = "store" /\ body[j].args[2] \in roots } }
        more == { body[i].def :
                     i \in { j \in DOMAIN body :
                                \/ body[j].op = "load" /\ body[j].args[2] \in slots
                                \/ body[j].op = "bitcast" /\ body[j].args[2] \in roots } }
    IN IF more \subseteq roots THEN roots ELSE DerivedFrom(body, roots \cup more)

\* the registers that point into a global string constant
LiteralPointers(body) ==
    DerivedFrom(body, { body[i].def : i \in { j \in DOMAIN body : body[j].site = "StringLit" } })

\* the registers that point into the frame of the function
StackPointers(body) ==
    DerivedFrom(body, { body[i].def :
                           i \in { j \in DOMAIN body :
                                      body[j].op = "alloca"
                                      /\ body[j].site \in {"StructInit", "BinaryOp"} } })

HeapCallees == {"malloc", "vec_new_impl", "int_to_string_impl", "read_file_impl"}

\* the registers that hold the result of a heap allocation
HeapPointers(body) ==
    DerivedFrom(body, { body[i].def :
                           i \in { j \in DOMAIN body :
                                      body[j].op = "call" /\ body[j].def # ""
                                      /\ body[j].args[2] \in HeapCallees } })

\* the slots the let bindings of `body` allocated
LetSlots(body) ==
    { body[i].def : i \in { j \in DOMAIN body :
                               body[j].op = "alloca" /\ body[j].site = "LetBinding" } }

\* how often the block-exit cleanup of `body` loads `slot` to free it
Cleanups(body, slot) ==
    Cardinality({ i \in DOMAIN body :
                     body[i].site = "Block" /\ body[i].op = "load"
                     /\ body[i].args[2] = slot })

\* the function the item loop has just lowered, if it has
JustLowered ==
    /\ pc = "items" /\ item > 1
    /\ ast[item - 1].k = "FunctionDef"
    /\ ast[item - 1].name \in reachable

LoweredFn == ast[item - 1]

\* its lines: the last function of the buffer
LoweredBody ==
    LET fs == Functions(cg.output)
        last == CHOOSE f \in fs : \A g \in fs : g[1] <= f[1]
    IN BodyOf(cg.output, last)

\* the nodes below `node`, in every field of every variant of AstNode
SubNodes(node) ==
    CASE node.k \in {"BinaryOp"} -> {node.left, node.right}
      [] node.k = "UnaryOp" -> {node.operand}
      [] node.k = "Call" -> Range(node.args)
      [] node.k = "MethodCall" -> {node.object} \cup Range(node.args)
      [] node.k = "MemberAccess" -> {node.object}
      [] node.k = "StructInit" -> { f.value : f \in Range(node.fields) }
      [] node.k = "EnumValue" -> Range(node.value)
      [] node.k = "ArrayLit" -> Range(node.elems)
      [] node.k = "Index" -> {node.array, node.index}
      [] node.k = "Reference" -> {node.e}
      [] node.k = "LetBinding" -> {node.value}
      [] node.k = "Assignment" -> {node.value}
      [] node.k = "ArrayAssignment" -> {node.index, node.value}
      [] node.k = "If" -> {node.condition, node.then_block} \cup Range(node.else_block)
      [] node.k = "While" -> {node.condition, node.body}
      [] node.k = "For" -> {node.iterator, node.body}
      [] node.k = "Match" -> {node.value} \cup { a.body : a \in Range(node.arms) }
      [] node.k = "Block" -> Range(node.stmts)
      [] node.k = "Return" -> Range(node.value)
      [] node.k = "ExpressionStatement" -> {node.e}
      [] node.k = "FunctionDef" -> {node.body}
      [] OTHER -> {}

RECURSIVE Descendants(_)
Descendants(node) == {node} \cup UNION { Descendants(c) : c \in SubNodes(node) }

\* the body leaves by a return, break or continue somewhere
HasJump(node) == \E n \in Descendants(node) : n.k \in {"Return", "Break", "Continue"}

-----------------------------------------------------------------------------
(* The properties                                                          *)

\* C1: in every function of the emitted module, the line after a terminator
\* (ret, br, unreachable) is a label or the end of the function: no
\* instruction is emitted after a terminator and before the next label.
NoInstructionAfterTerminator ==
    \A f \in Functions(Module) :
        \A i \in (f[1] + 1)..(f[2] - 1) :
            Module[i].op \in Terminators => Module[i + 1].op \in {"label", "}"}

\* C2: once a function is lowered, every binding of it that is heap and not
\* a string literal has at most one block-exit free sequence in the function,
\* and exactly one when no return, break or continue leaves any block early:
\* the defining block frees it and no enclosing block frees it again.
OneFreePerHeapBinding ==
    JustLowered =>
        \A n \in DOMAIN cg.current_function_vars :
            LET meta == cg.current_function_vars[n]
                count == Cleanups(LoweredBody, meta.llvm_name)
            IN (meta.is_heap /\ ~meta.is_string_literal) =>
                  /\ count <= 1
                  /\ ~HasJump(LoweredFn.body) => count = 1

\* C3: in every function of the emitted module, no call of free receives a
\* pointer into a global string constant, whether the literal was bound
\* directly, copied from another binding, or used as an operand of +.
NoFreeOfStringConstant ==
    \A f \in Functions(Module) :
        LET body == BodyOf(Module, f)
            lits == LiteralPointers(body)
        IN \A i \in DOMAIN body : IsFree(body[i]) => body[i].args[3] \notin lits


\* C4: once a function whose blocks all exit normally is lowered, every slot
\* a let binding stored a heap allocation into (the result of vec_new,
\* int_to_string, read_file, a malloc-backed concatenation or struct
\* initializer) is loaded by a block-exit free sequence.
HeapLetsFreed ==
    (JustLowered /\ ~HasJump(LoweredFn.body)) =>
        \A i \in DOMAIN LoweredBody :
            LET l == LoweredBody[i]
            IN (l.site = "LetBinding" /\ l.op = "store"
                /\ l.args[2] \in HeapPointers(LoweredBody))
               => Cleanups(LoweredBody, l.args[3]) >= 1

\* the names whose value the expression `e` carries: the identifier itself,
\* behind a reference, or inside a unary or binary expression
RECURSIVE Carried(_)
Carried(e) ==
    CASE e.k = "Identifier" -> {e.name}
      [] e.k = "Reference" -> Carried(e.e)
      [] e.k = "UnaryOp" -> Carried(e.operand)
      [] e.k = "BinaryOp" -> Carried(e.left) \cup Carried(e.right)
      [] OTHER -> {}

\* `names` and every name a binding of one of them is initialised or
\* assigned from
RECURSIVE FlowsInto(_, _)
FlowsInto(body, names) ==
    LET more == UNION { Carried(n.value) :
                           n \in { d \in Descendants(body) :
                                      d.k \in {"LetBinding", "Assignment"}
                                      /\ d.name \in names } }
    IN IF more \subseteq names THEN names ELSE FlowsInto(body, names \cup more)

\* the names whose value leaves the function: it reaches the operand of a
\* return or an argument of a call that is not on the allowlist
Leaving(body) ==
    LET nodes == Descendants(body)
        returned == UNION { Carried(v) :
                               v \in UNION { Range(n.value) :
                                                n \in { d \in nodes : d.k = "Return" } } }
        passed == UNION { Carried(a) :
                             a \in UNION { Range(n.args) :
                                              n \in { d \in nodes :
                                                         d.k = "Call"
                                                         /\ d.name \notin SafeBuiltins } } }
    IN FlowsInto(body, returned \cup passed)

\* C5: once a function is lowered, no name whose value leaves the function is
\* in its non-escaping set, and no return hands out a pointer into the frame
\* of the function.
EscapeAnalysisConservative ==
    JustLowered =>
        /\ cg.non_escaping \cap Leaving(LoweredFn.body) = {}
        /\ \A i \in DOMAIN LoweredBody :
              (LoweredBody[i].op = "ret" /\ Len(LoweredBody[i].args) >= 2)
              => LoweredBody[i].args[2] \notin StackPointers(LoweredBody)

\* C6: after generate, no two entries of the string-literal table have equal
\* bodies, and no two have the same name.
StringLiteralsInterned ==
    pc = "done" =>
        \A i, j \in DOMAIN cg.string_literals :
            i # j => /\ cg.string_literals[i][2] # cg.string_literals[j][2]
                     /\ cg.string_literals[i][1] # cg.string_literals[j][1]


\* the item loop of generate over the first n items (codegen.rs:291-309)
RECURSIVE GenItems(_, _, _, _)
GenItems(g, nodes, reach, n) ==
    IF n = 0 THEN g
    ELSE GenItem(GenItems(g, nodes, reach, n - 1), nodes[n], reach)

\* the generator when generate (codegen.rs:243-311) has run every pass on
\* the program, in a run in which every unordered container iterates in its
\* first order
Generated(nodes) ==
    LET g1 == RegisterStructTypes(NewCodeGenerator, nodes)
        g2 == [g1 EXCEPT !.pure_functions = PureFunctions(nodes)]
        reach == CollectReachable(nodes)
        g3 == [g2 EXCEPT !.struct_decls = @ \o StructDecls(g2)]
        g4 == EmitHeader(g3)
        g5 == GenItems(g4, nodes, reach, Len(nodes))
    IN EmitFooter(InOrder(<<g1, g2, g3, g4, g5>>))

\* generate (codegen.rs:243-313) as one function of the program
Generate(nodes) == BuildOutput(Generated(nodes))

\* C8: two runs of generate on the same program return the same text: the
\* text of every run is the text of the run in which every unordered
\* container iterates in its first order.
ByteIdenticalRuns == pc = "done" => Unwrap(ir) = Generate(ast)

\* C9: every name a call instruction of the emitted module calls is defined
\* or declared in the module.
CalledNamesDefined ==
    \A i \in DOMAIN Module :
        Module[i].op = "call" =>
            Module[i].args[2] \in { Module[j].def :
                                       j \in { x \in DOMAIN Module :
                                                  Module[x].op \in {"define", "declare"} } }

\* the names the calls below `body` call
Calls(body) == { n.name : n \in { d \in Descendants(body) : d.k = "Call" } }

\* the least set of names that holds `names` and is closed under the call
\* edges of the functions of `nodes`
RECURSIVE Closure(_, _)
Closure(nodes, names) ==
    LET more == UNION { Calls(nodes[i].body) :
                           i \in { j \in DOMAIN nodes :
                                      nodes[j].k = "FunctionDef" /\ nodes[j].name \in names } }
    IN IF more \subseteq names THEN names ELSE Closure(nodes, names \cup more)

\* the lines of the module outside every function
TopLevelLines ==
    LET fs == Functions(Module)
    IN { i \in DOMAIN Module : \A f \in fs : i < f[1] \/ i > f[2] }

\* the module holds the lowering of the top-level item `node`
Emitted(node) ==
    IF node.k = "FunctionDef"
    THEN \E f \in Functions(Module) : Module[f[1]].def = MangleFn(node.name)
    ELSE \E i \in TopLevelLines :
            /\ Module[i].site = "LetBinding" /\ Module[i].op = "store"
            /\ Module[i].args[2] = ToString(node.value.n)

\* C7: the set collect_reachable returned is the least set of names that
\* holds main and is closed under call edges, and the module generate returns
\* holds a top-level function or let exactly when its name is in that set.
ReachableIsLeastClosedSet ==
    LET least == Closure(ast, {"main"})
    IN /\ pc \in {"decls", "header", "items", "build", "done"} => reachable = least
       /\ pc = "done" =>
             \A i \in DOMAIN ast :
                 ast[i].k \in {"FunctionDef", "LetBinding"} =>
                     (Emitted(ast[i]) <=> ast[i].name \in least)

\* a program whose functions f and g call each other was compiled: main calls
\* f only, both f and g are emitted, and the binding h, which nothing
\* reachable calls, is not
MutualRecursionCompiled ==
    /\ pc = "done"
    /\ \E i, j, m \in DOMAIN ast :
          /\ ast[i].k = "FunctionDef" /\ ast[i].name = "f" /\ "g" \in Calls(ast[i].body)
          /\ ast[j].k = "FunctionDef" /\ ast[j].name = "g" /\ "f" \in Calls(ast[j].body)
          /\ ast[m].k = "FunctionDef" /\ ast[m].name = "main"
          /\ "f" \in Calls(ast[m].body) /\ "g" \notin Calls(ast[m].body)
          /\ Emitted(ast[i]) /\ Emitted(ast[j])
    /\ \E i \in DOMAIN ast :
          /\ ast[i].k = "LetBinding" /\ ast[i].name = "h"
          /\ "h" \notin reachable /\ ~Emitted(ast[i])

\* the names the lines of `body` define
DefinedIn(body) == { body[i].def : i \in { j \in DOMAIN body : body[j].def # "" } }

\* C10: once a function is lowered, no two of its instructions define the
\* same name, and the numbered temporaries it defines are %0 up to the last
\* one the counter issued: the counter started at 0 at function entry.
TemporariesDefinedOnce ==
    JustLowered =>
        LET body == LoweredBody
        IN /\ \A i, j \in DOMAIN body :
                 (i # j /\ body[i].def # "") => body[i].def # body[j].def
           /\ DefinedIn(body) = { "%" \o ToString(n) : n \in 0..(cg.temp_counter - 1) }

\* main was lowered after another function that defined temporaries, and
\* defines several itself
SecondFunctionLowered ==
    /\ JustLowered
    /\ LoweredFn.name = "main"
    /\ cg.temp_counter >= 2
    /\ \E f \in Functions(cg.output) :
          /\ cg.output[f[1]].def # "main"
          /\ "%1" \in DefinedIn(BodyOf(cg.output, f))

\* ---------------------------------------------------------------------
\* Purity as the specification states it (section 4.6).

MutatingMethods == {"push", "set"}

HasMutRefParam(f) ==
    \E i \in DOMAIN f.params :
        LET p == f.params[i]
            s == StripRefPrefix(p.param_type)
        IN  (p.is_reference \/ s[1]) /\ (p.is_mutable \/ s[2])

HasStringParam(f) ==
    \E i \in DOMAIN f.params : StripRefPrefix(f.params[i].param_type)[3] = "string"

IsImpureNode(n) ==
    \/ n.k \in {"Assignment", "ArrayAssignment"}
    \/ n.k = "Call" /\ n.name \in ImpureBuiltins
    \/ n.k = "MethodCall" /\ n.method \in MutatingMethods
    \/ n.k = "BinaryOp" /\ n.op = "Add"
         /\ (n.left.k = "StringLit" \/ n.right.k = "StringLit")

StatedPure(f) ==
    LET inside == Descendants(f.body)
    IN  /\ ~HasMutRefParam(f)
        /\ \A n \in inside : ~IsImpureNode(n)
        /\ ~(HasStringParam(f)
             /\ \E n \in inside : n.k = "BinaryOp" /\ n.op = "Add")

\* C11: once the purity sweep has run, a function is recorded as pure
\* exactly when it has no mutable-reference parameter, its body contains
\* at any depth no assignment, array assignment or impure built-in (in call
\* or method-call form), and it does not combine a string parameter with a
\* `+` anywhere in its body.
PurityAsStated ==
    pc \in {"reachable", "decls", "header", "items", "build", "done"} =>
        \A i \in DOMAIN ast :
            ast[i].k = "FunctionDef" =>
                (ast[i].name \in cg.pure_functions <=> StatedPure(ast[i]))

\* C12: when the text generate returned lacks `define i32 @main()`, the
\* driver has printed the missing-main error and exited with code 1 with no
\* .ll file written and clang never started; a written .ll file or a started
\* clang means the text passed the check.
MissingMainRejected ==
    /\ (pc \in {"write", "link", "exit"} /\ IsSome(ir) /\ ~HasMain(Unwrap(ir))) =>
           /\ pc = "exit"
           /\ drv.stderr = "no 'main' function found"
           /\ drv.exit_code = Some(1)
           /\ drv.ll_file = None
           /\ drv.clang = "not started"
    /\ (IsSome(drv.ll_file) \/ drv.clang # "not started") =>
           IsSome(ir) /\ HasMain(Unwrap(ir))

\* a library file was compiled and turned down after code generation
MissingMainExit ==
    /\ pc = "exit"
    /\ IsSome(ir)
    /\ ~HasMain(Unwrap(ir))
    /\ drv.stderr = "no 'main' function found"
    /\ drv.exit_code = Some(1)

\* C13: the process ends with code 0 exactly when clang ran and exited zero,
\* and with code 1 after every failed stage, a clang that could not be
\* started included; a stage that ran means every stage before it succeeded.
ExitCodeReportsOutcome ==
    /\ pc = "exit" =>
           /\ drv.exit_code \in {Some(0), Some(1)}
           /\ drv.exit_code = Some(0) <=> drv.clang = "exited zero"
    /\ drv.clang # "not started" => IsSome(drv.ll_file)
    /\ IsSome(drv.ll_file) => IsSome(ir) /\ HasMain(Unwrap(ir))

\* ---------------------------------------------------------------------
\* The lowering table as the specification states it (section 3).

\* the type names the program spells out: parameters, results and fields
TypeNames(nodes) ==
    UNION { IF nodes[i].k = "FunctionDef"
            THEN { nodes[i].params[j].param_type : j \in DOMAIN nodes[i].params }
                 \cup Range(nodes[i].return_type)
            ELSE IF nodes[i].k = "StructDef"
            THEN { nodes[i].fields[j].field_type : j \in DOMAIN nodes[i].fields }
            ELSE {} : i \in DOMAIN nodes }

StatedValueLowering(g, t) ==
    CASE t = "int" -> "i64"
      [] t = "bool" -> "i1"
      [] t = "char" -> "i8"
      [] t = "void" -> "void"
      [] t = "string" -> "i8*"
      [] t = "Vec" -> "i8*"
      [] t = "enum" -> "{ i32, i64 }*"
      [] StartsWithBracket(t) -> "[" \o ToString(ArraySizeOf(t)) \o " x i64]"
      [] ContainsKey(g.struct_types, t) -> "%" \o t \o "*"
      [] OTHER -> TypeToLlvm(g, t)

StatedLowering(g, t) ==
    LET s == StripRefPrefix(t)
    IN  IF s[1] THEN StatedValueLowering(g, s[3]) \o "*" ELSE StatedValueLowering(g, t)

\* C14: once the structs are registered, type_to_llvm gives every type name
\* of the program the spelling of the lowering table: the scalar and pointer
\* spellings, %S* for a registered struct, [N x i64] for a sized array and
\* the inner spelling followed by * for a reference-qualified type.
TypeLoweringAsStated ==
    pc \in {"purity", "reachable", "decls", "header", "items", "build", "done"} =>
        \A t \in TypeNames(ast) : TypeToLlvm(cg, t) = StatedLowering(cg, t)

\* the program without its i-th item
Without(nodes, i) == SubSeq(nodes, 1, i - 1) \o SubSeq(nodes, i + 1, Len(nodes))

\* the items that define a function nothing reachable from main calls
DeadFunctions ==
    { i \in DOMAIN ast : ast[i].k = "FunctionDef" /\ ast[i].name \notin CollectReachable(ast) }

\* C15: a function definition not reachable from main leaves no trace: the
\* module generate returns is the module it returns for the program without
\* that definition, wherever the definition stands among the items, and the
\* generator holds no signature entry for it.
DeadCodeLeavesNoTrace ==
    (pc = "done" /\ Unwrap(ir) = Generate(ast)) =>
        \A i \in DeadFunctions :
            /\ Generate(Without(ast, i)) = Unwrap(ir)
            /\ ~ContainsKey(cg.function_signatures, ast[i].name)

\* a module was emitted for a program whose last item is a function nothing
\* calls and whose body holds string literals of its own
DeadFunctionAfterMain ==
    /\ pc = "done"
    /\ Unwrap(ir) = Generate(ast)
    /\ Len(ast) \in DeadFunctions
    /\ ast[Len(ast)] = FnUnused
    /\ \E i \in DOMAIN ast : ast[i].k = "FunctionDef" /\ ast[i].name = "main"

\* the last statement of the body of the function just lowered, if any
LastStatement ==
    LET stmts == LoweredFn.body.stmts
    IN  IF stmts = << >> THEN None ELSE Some(stmts[Len(stmts)])

\* C16: block_terminated is true after a return is lowered and false after
\* an if, a while, a for or a match is lowered, whatever their blocks end in:
\* read when the body of a function ends in such a statement.
FlagFalseAfterCompound ==
    (JustLowered /\ IsSome(LastStatement)) =>
        LET last == Unwrap(LastStatement)
        IN  /\ last.k \in {"If", "While", "For", "Match"} => ~cg.block_terminated
            /\ last.k = "Return" => cg.block_terminated

\* the return type gen_function declares for the function `f` of the program
DeclaredReturn(f) ==
    IF f.name = "main" THEN "i32"
    ELSE IF IsSome(f.return_type) THEN TypeToLlvm(cg, Unwrap(f.return_type))
    ELSE "void"

\* C17: every call instruction of the emitted module that calls a function
\* the program defines is written with the return type that function is
\* declared with, wherever the callee stands relative to the caller.
CallsCarryDeclaredType ==
    LET text == Module
    IN  \A i \in DOMAIN text :
            (text[i].op = "call" /\ text[i].site = "Call") =>
                \A j \in DOMAIN ast :
                    (ast[j].k = "FunctionDef" /\ text[i].args[2] = MangleFn(ast[j].name)) =>
                        text[i].args[1] = DeclaredReturn(ast[j])

\* the index of `variant` in the declaration of the enum `enum_name`, as text
DeclaredTag(enum_name, variant) ==
    LET d == CHOOSE i \in DOMAIN ast : ast[i].k = "EnumDef" /\ ast[i].name = enum_name
        vs == ast[d].variants
    IN  ToString((CHOOSE i \in DOMAIN vs : vs[i].name = variant) - 1)

\* the nodes of the functions generate lowers
LoweredNodes ==
    UNION { Descendants(ast[i].body) :
              i \in { j \in DOMAIN ast : ast[j].k = "FunctionDef" /\ ast[j].name \in reachable } }

\* C18: the tags the emitted module stores when it constructs enum values,
\* and the tags its match arms compare against, are the indexes of the
\* constructed and of the matched variants in the declaration of their enum,
\* whether the declaration stands before or after the functions.
TagsFollowDeclaration ==
    pc = "done" =>
        LET text == Unwrap(ir)
            nodes == LoweredNodes
            stored == { text[i].args[2] :
                          i \in { j \in DOMAIN text : /\ text[j].site = "EnumValue"
                                                     /\ text[j].op = "store"
                                                     /\ text[j].args[1] = "i32" } }
            compared == { text[i].args[3] :
                            i \in { j \in DOMAIN text : /\ text[j].site = "Match"
                                                       /\ text[j].op = "icmp eq"
                                                       /\ text[j].args[1] = "i32" } }
            built == { n \in nodes : n.k = "EnumValue" }
            patterns == UNION { { n.arms[a].pattern : a \in DOMAIN n.arms } :
                                  n \in { m \in nodes : m.k = "Match" } }
        IN  /\ stored = { DeclaredTag(n.enum_name, n.variant) : n \in built }
            /\ compared = { DeclaredTag(q.enum_name, q.variant) :
                              q \in { r \in patterns : r.p = "EnumPattern" } }

-----------------------------------------------------------------------------
(* Running the emitted code.  The function `main` of the module generate   *)
(* returned is run one instruction at a step, with the meaning LLVM gives  *)
(* the instructions gen_node writes: a slot is named by the register its   *)
(* alloca defines, a field of a slot by the slot and the field index.      *)

MaxRange == 2       \* loop bounds and matched values go up to this number
MaxOut == 4         \* values a run prints before it is cut off

\* the lines of `main` in the text, from its entry label to the line before `}`
MainCode(text) ==
    LET f == CHOOSE p \in Functions(text) : text[p[1]].def = "main"
    IN  BodyOf(text, f)

\* the machine about to run the first line of `code`
Boot(code) ==
    [status |-> "running", code |-> code, ip |-> 1,
     regs |-> EmptyMap, mem |-> EmptyMap, out |-> << >>]

\* the number an operand written as a literal denotes
Literal(s) == CHOOSE n \in 0..(2 * MaxRange + 2) : ToString(n) = s

\* the value of an operand: what its register holds, or the literal it is
Val(m, operand) ==
    IF ContainsKey(m.regs, operand) THEN m.regs[operand] ELSE Literal(operand)

\* the line the machine is at, if it is at one
AtOp(ops) ==
    /\ pc = "run"
    /\ vm.status = "running"
    /\ vm.ip \in DOMAIN vm.code
    /\ vm.code[vm.ip].op \in ops

\* the machine having defined the register of its line and moved on
Defined(value) ==
    [vm EXCEPT !.regs = Insert(@, vm.code[vm.ip].def, value), !.ip = @ + 1]

Compiled == <<ast, cg, reachable, item, ir, pc, drv>>

\* the programs that are run: one loop or one match in main, printing as it goes
Show(e) == CallStmt("print", <<e>>)

MainOf(stmts) == <<FunctionDef("main", << >>, Block(stmts), None)>>

ForBodies ==
    {<<Show(Identifier("v"))>>,
     <<Show(Identifier("v")), Continue>>,
     <<Show(Identifier("v")), Break>>,
     <<Show(Identifier("v")),
       If(BinaryOp("Equal", Identifier("v"), Number(0)), Block(<< >>), None)>>}

ForPrograms ==
    {MainOf(<<For("v", BinaryOp("DotDot", Number(a), Number(b)), Block(body))>>) :
        a \in 0..MaxRange, b \in 0..MaxRange, body \in ForBodies}
    \cup {MainOf(<<For("v", Number(b), Block(body))>>) : b \in 0..MaxRange, body \in ForBodies}
    \cup {MainOf(<<LetBinding("n", Number(b)),
                   For("v", BinaryOp("DotDot", Number(a), Identifier("n")),
                       Block(<<Show(Identifier("v")),
                               Assignment("n", BinaryOp("Add", Identifier("n"), Number(1)))>>))>>) :
             a \in 0..MaxRange, b \in 0..MaxRange}

ArmPatterns == {NumberPattern(1), NumberPattern(2), Wildcard, IdentifierPattern("y")}

\* arm lists of one and two arms; the i-th arm prints i, and may return after it
ArmLists ==
    LET arm(p, i, leave) ==
            MatchArm(p, Block(<<Show(Number(i))>> \o
                              (IF leave THEN <<Return(None)>> ELSE << >>)))
    IN  {<<arm(p, 1, leave)>> : p \in ArmPatterns, leave \in BOOLEAN}
        \cup {<<arm(p, 1, leave), arm(q, 2, FALSE)>> :
                 p \in ArmPatterns, q \in ArmPatterns, leave \in BOOLEAN}

MatchPrograms ==
    {MainOf(<<Match(Number(n), arms)>>) : n \in 1..(MaxRange + 1), arms \in ArmLists}

RunPrograms == ForPrograms \cup MatchPrograms \cup EnumPrograms

RunInit ==
    /\ ast \in RunPrograms
    /\ cg = Generated(ast)
    /\ reachable = CollectReachable(ast)
    /\ item = Len(ast) + 1
    /\ ir = Some(BuildOutput(cg))
    /\ pc = "run"
    /\ drv = NewProcess
    /\ vm = Boot(MainCode(Unwrap(ir)))

\* %r = alloca T
ExecAlloca ==
    /\ AtOp({"alloca"})
    /\ vm' = Defined(<<vm.code[vm.ip].def>>)
    /\ UNCHANGED Compiled

\* %r = getelementptr { i32, i64 }, { i32, i64 }* %p, i32 0, i32 k
ExecFieldAddress ==
    /\ AtOp({"getelementptr"})
    /\ LET line == vm.code[vm.ip]
       IN  vm' = Defined(Append(Val(vm, line.args[2]), line.args[4]))
    /\ UNCHANGED Compiled

\* store T v, T* %p
ExecStore ==
    /\ AtOp({"store"})
    /\ LET line == vm.code[vm.ip]
       IN  vm' = [vm EXCEPT !.mem = Insert(@, Val(vm, line.args[3]), Val(vm, line.args[2])),
                            !.ip = @ + 1]
    /\ UNCHANGED Compiled

\* %r = load T, T* %p; a slot nothing was stored to holds any value
ExecLoad ==
    /\ AtOp({"load"})
    /\ LET at == Val(vm, vm.code[vm.ip].args[2])
       IN  \E undef \in 0..MaxRange :
               vm' = Defined(IF ContainsKey(vm.mem, at) THEN vm.mem[at] ELSE undef)
    /\ UNCHANGED Compiled

\* %r = add i64 a, b and the integer comparisons; an i1 is 1 or 0
ExecArithmetic ==
    /\ AtOp({"add", "sub", "icmp slt", "icmp eq"})
    /\ LET line == vm.code[vm.ip]
           a == Val(vm, line.args[2])
           b == Val(vm, line.args[3])
           bit(t) == IF t THEN 1 ELSE 0
       IN  vm' = Defined(CASE line.op = "add" -> a + b
                           [] line.op = "sub" -> a - b
                           [] line.op = "icmp slt" -> bit(a < b)
                           [] line.op = "icmp eq" -> bit(a = b))
    /\ UNCHANGED Compiled

\* br label %l and br i1 c, label %t, label %e: on to the line after the label
ExecBranch ==
    /\ AtOp({"br"})
    /\ LET line == vm.code[vm.ip]
           target == IF Len(line.args) = 1 THEN line.args[1]
                     ELSE IF Val(vm, line.args[1]) = 1 THEN line.args[2]
                     ELSE line.args[3]
           at == CHOOSE i \in DOMAIN vm.code :
                     vm.code[i].op = "label" /\ vm.code[i].args[1] = target
       IN  vm' = [vm EXCEPT !.ip = at + 1]
    /\ UNCHANGED Compiled

\* call void @brn_print_int(i64 v): the value is written out
ExecPrint ==
    /\ AtOp({"call"})
    /\ vm.code[vm.ip].args[2] = "brn_print_int"
    /\ Len(vm.out) < MaxOut
    /\ vm' = [vm EXCEPT !.out = Append(@, Val(vm, vm.code[vm.ip].args[3])), !.ip = @ + 1]
    /\ UNCHANGED Compiled

\* ret
ExecRet ==
    /\ AtOp({"ret"})
    /\ vm' = [vm EXCEPT !.status = "returned"]
    /\ UNCHANGED Compiled

\* a block has to end in a terminator: the entry label opens the function,
\* and control that runs into any other label, or past the last line of the
\* function, has left a block that has none
ExecOffBlock ==
    /\ pc = "run"
    /\ vm.status = "running"
    /\ IF vm.ip \in DOMAIN vm.code THEN vm.code[vm.ip].op = "label" ELSE TRUE
    /\ vm' = IF vm.ip = 1 THEN [vm EXCEPT !.ip = 2] ELSE [vm EXCEPT !.status = "fault"]
    /\ UNCHANGED Compiled

RunNext ==
    \/ ExecAlloca
    \/ ExecFieldAddress
    \/ ExecStore
    \/ ExecLoad
    \/ ExecArithmetic
    \/ ExecBranch
    \/ ExecPrint
    \/ ExecRet
    \/ ExecOffBlock

RunSpec == RunInit /\ [][RunNext]_vars

\* `s` is an initial part of `t`
IsPrefix(s, t) == Len(s) <= Len(t) /\ \A i \in DOMAIN s : s[i] = t[i]

\* the statements of main in the program that is run, and the last of them
MainBody == (CHOOSE f \in Range(ast) : f.k = "FunctionDef" /\ f.name = "main").body.stmts

Subject == MainBody[Len(MainBody)]

\* the number a bound of the loop denotes on entry: a literal, or the
\* variable `n` main binds to a literal before the loop
BoundOf(e) == IF e.k = "Number" THEN e.n ELSE MainBody[1].value.n

\* the values `for v in a..b` and `for v in e` are to give v, in order
RangeOf(loop) ==
    LET a == IF loop.iterator.k = "BinaryOp" THEN BoundOf(loop.iterator.left) ELSE 0
        b == IF loop.iterator.k = "BinaryOp" THEN BoundOf(loop.iterator.right)
             ELSE BoundOf(loop.iterator)
    IN  [i \in 1..(IF b > a THEN b - a ELSE 0) |-> a + i - 1]

\* the body of the loop neither assigns the loop variable nor leaves the loop
StaysInLoop(loop) ==
    \A n \in Descendants(loop.body) :
        /\ n.k \notin {"Break", "Return"}
        /\ n.k = "Assignment" => n.name # loop.variable

\* C20: the code emitted for `for v in a..b` runs its body max(0, b-a) times
\* with v = a, a+1, ..., b-1 in this order, the bounds being read once before
\* the first test, when the body neither assigns v nor leaves the loop; every
\* body of the programs run prints v first.  The loop is lowered with the
\* loop stack as deep after it as before it.
ForRunsOverRange ==
    (pc = "run" /\ Subject.k = "For" /\ StaysInLoop(Subject)) =>
        /\ IsPrefix(vm.out, RangeOf(Subject))
        /\ vm.status # "running" => vm.out = RangeOf(Subject)
        /\ cg.loop_stack = << >>

\* the value main matches on: the literal, or the enum value bound to `x`
Scrutinee == IF Subject.value.k = "Number" THEN Subject.value ELSE MainBody[1].value

\* the pattern matches the value
Matches(pat, val) ==
    \/ pat.p \in {"Wildcard", "Identifier"}
    \/ /\ pat.p = "NumberPattern"
       /\ val.k = "Number"
       /\ pat.n = val.n
    \/ /\ pat.p = "EnumPattern"
       /\ val.k = "EnumValue"
       /\ pat.enum_name = val.enum_name
       /\ pat.variant = val.variant

\* what a match whose i-th arm prints i is to print: the position of the
\* first arm whose pattern matches, nothing when none does
FirstMatch(arms, val) ==
    LET hits == { i \in DOMAIN arms : Matches(arms[i].pattern, val) }
    IN  IF hits = {} THEN << >> ELSE <<CHOOSE i \in hits : \A j \in hits : i <= j>>

\* C19: in the code emitted for a match the body that runs is the body of
\* the first arm, in source order, whose pattern matches the value, and of no
\* arm when none matches; no arm after a wildcard or identifier arm runs; and
\* control never runs into a label out of a block without a branch.
FirstMatchingArmRuns ==
    (pc = "run" /\ Subject.k = "Match") =>
        /\ IsPrefix(vm.out, FirstMatch(Subject.arms, Scrutinee))
        /\ vm.status # "running" => vm.out = FirstMatch(Subject.arms, Scrutinee)
        /\ vm.status # "fault"

\* the identifiers that are operands of a string + in `node`
ConcatOperands(node, bindings) ==
    LET IsString(e) ==
            \/ e.k = "StringLit"
            \/ e.k = "Identifier" /\ ContainsKey(bindings, e.name)
                  /\ bindings[e.name].var_type = "string"
        sums == { n \in Descendants(node) :
                     n.k = "BinaryOp" /\ n.op = "Add" /\ IsString(n.left) }
    IN { e.name : e \in { o \in UNION {{n.left, n.right} : n \in sums} :
                             o.k = "Identifier" } }

\* the frees the concatenation cleanup emitted for the slot: its loads
ConcatFrees(body, slot) ==
    Cardinality({ i \in DOMAIN body :
                     body[i].site = "BinaryOp" /\ body[i].op = "load"
                     /\ body[i].args[2] = slot })

\* C21: once a function is lowered, the concatenation cleanup has emitted a
\* free of a binding exactly when the binding is an operand of a string + and
\* has the heap flag set: parameters, stack-promoted bindings and
\* literal-bound variables are not freed by it, and a binding it freed is not
\* freed again by block cleanup.
ConcatFreesOwnedOperandsOnce ==
    JustLowered =>
        LET body == LoweredBody
            bindings == cg.current_function_vars
            operands == ConcatOperands(LoweredFn.body, bindings)
        IN \A n \in DOMAIN bindings :
              LET slot == bindings[n].llvm_name
                  frees == ConcatFrees(body, slot)
              IN /\ (n \in operands /\ bindings[n].is_heap) <=> frees >= 1
                 /\ frees >= 1 => Cleanups(body, slot) = 0

-----------------------------------------------------------------------------
(* The runtime functions @int_to_string_stack and @int_to_string_impl      *)
(* (codegen.rs:819-900), run one basic block per step.  An i64 is held as  *)
(* its two's complement bits, least significant limb first, so that        *)
(* `sub i64 0, %n` wraps as the instruction does.                          *)

Limbs == 4             \* limbs of an i64
LimbBase == 65536      \* values of one limb: 16 bits
BufSize == 32          \* bytes of the buffer: malloc(i64 32), [32 x i8]

I64 == [1..Limbs -> 0..(LimbBase - 1)]

Small(k) == [i \in 1..Limbs |-> IF i = 1 THEN k ELSE 0]

\* icmp eq i64 %a, 0
IsZero(a) == \A i \in 1..Limbs : a[i] = 0

\* icmp slt i64 %a, 0: the sign bit
IsNegative(a) == a[Limbs] >= LimbBase \div 2

\* sub i64 0, %a: complement and add one, the carry running through the low
\* limbs that are zero
Negate(a) ==
    [i \in 1..Limbs |->
        ((LimbBase - 1 - a[i]) + (IF \A j \in 1..(i - 1) : a[j] = 0 THEN 1 ELSE 0))
            % LimbBase]

\* the remainder of the unsigned limbs Limbs..i by d, long division
RECURSIVE RemainderFrom(_, _, _)
RemainderFrom(a, d, i) ==
    IF i > Limbs THEN 0 ELSE (RemainderFrom(a, d, i + 1) * LimbBase + a[i]) % d

UnsignedDiv(a, d) ==
    [i \in 1..Limbs |-> (RemainderFrom(a, d, i + 1) * LimbBase + a[i]) \div d]

\* sdiv i64 %a, d and srem i64 %a, d for a small positive d: the quotient
\* truncates toward zero and the remainder has the sign of %a
SDiv(a, d) ==
    IF IsNegative(a) THEN Negate(UnsignedDiv(Negate(a), d)) ELSE UnsignedDiv(a, d)

SRem(a, d) ==
    IF IsNegative(a) THEN 0 - RemainderFrom(Negate(a), d, 1) ELSE RemainderFrom(a, d, 1)

\* trunc i64 to i8 of a small value
TruncI8(k) == k % 256

\* store i8 byte at %buf + off; a store outside the buffer is recorded
StoreByte(m, off, byte) ==
    IF off \in 0..(BufSize - 1)
    THEN [m EXCEPT !.buf[off + 1] = Some(byte)]
    ELSE [m EXCEPT !.stray = TRUE]

\* the decimal texts the functions are run on: a sign and the digits
Decimal(neg, digits) == [neg |-> neg, digits |-> digits]

Int64MaxDigits == <<9, 2, 2, 3, 3, 7, 2, 0, 3, 6, 8, 5, 4, 7, 7, 5, 8, 0, 7>>
Int64MinDigits == <<9, 2, 2, 3, 3, 7, 2, 0, 3, 6, 8, 5, 4, 7, 7, 5, 8, 0, 8>>

Magnitudes ==
    {<<0>>, <<1>>, <<9>>, <<1, 0>>, <<4, 2>>, <<1, 0, 0>>, <<2, 5, 5>>,
     <<6, 5, 5, 3, 5>>, <<6, 5, 5, 3, 6>>, <<4, 2, 9, 4, 9, 6, 7, 2, 9, 6>>,
     <<1, 0, 0, 0, 0, 0, 0, 0, 0, 0, 0, 0, 0, 0, 0, 0, 0, 0, 0>>,
     Int64MaxDigits}

Numbers ==
    {Decimal(FALSE, d) : d \in Magnitudes}
    \cup {Decimal(TRUE, d) : d \in (Magnitudes \ {<<0>>}) \cup {Int64MinDigits}}

\* a * m + c on the limbs, modulo 2^64
RECURSIVE CarryInto(_, _, _, _)
CarryInto(a, m, c, i) ==
    IF i = 1 THEN c ELSE (a[i - 1] * m + CarryInto(a, m, c, i - 1)) \div LimbBase

MulAdd(a, m, c) == [i \in 1..Limbs |-> (a[i] * m + CarryInto(a, m, c, i)) % LimbBase]

\* the i64 a decimal text denotes
RECURSIVE Magnitude(_)
Magnitude(digits) ==
    IF digits = << >> THEN Small(0)
    ELSE MulAdd(Magnitude(SubSeq(digits, 1, Len(digits) - 1)), 10, digits[Len(digits)])

ToI64(x) == IF x.neg THEN Negate(Magnitude(x.digits)) ELSE Magnitude(x.digits)

\* a call of `callee` on n with a fresh buffer: the caller's alloca or the
\* block malloc returns (the allocation is taken to succeed)
Called(callee, x) ==
    [status |-> "running", callee |-> callee, input |-> x, n |-> ToI64(x),
     block |-> "entry", buf |-> [i \in 1..BufSize |-> None], stray |-> FALSE,
     isneg |-> FALSE, cur |-> Small(0), pos |-> 0, quot |-> Small(0), prev |-> 0,
     ret |-> None]

IntToStringInit ==
    /\ ast = Prefix \o <<FunctionDef("main", << >>,
                            Block(<<CallStmt("print", <<Call("int_to_string",
                                                             <<Number(1)>>)>>)>>), None)>>
    /\ cg = Generated(ast)
    /\ reachable = CollectReachable(ast)
    /\ item = Len(ast) + 1
    /\ ir = Some(BuildOutput(cg))
    /\ pc = "run"
    /\ drv = NewProcess
    /\ \E callee \in {"int_to_string_stack", "int_to_string_impl"}, x \in Numbers :
          vm = Called(callee, x)

InBlock(label) == vm.status = "running" /\ vm.block = label

\* its_entry: (malloc,) icmp eq %n, 0, br
ItsEntry ==
    /\ InBlock("entry")
    /\ vm' = [vm EXCEPT !.block = IF IsZero(vm.n) THEN "zero" ELSE "nonzero"]
    /\ UNCHANGED Compiled

\* its_zero: '0' at 30, NUL at 31, ret %buf + 30
ItsZero ==
    /\ InBlock("zero")
    /\ vm' = [StoreByte(StoreByte(vm, 30, 48), 31, 0)
                 EXCEPT !.status = "returned", !.ret = Some(30)]
    /\ UNCHANGED Compiled

\* its_nonzero: isneg, neg, abs = select, NUL at 31, br loop with the phi
\* operands of this edge
ItsNonzero ==
    /\ InBlock("nonzero")
    /\ vm' = [StoreByte(vm, 31, 0)
                 EXCEPT !.isneg = IsNegative(vm.n),
                        !.cur = IF IsNegative(vm.n) THEN Negate(vm.n) ELSE vm.n,
                        !.pos = 30,
                        !.block = "loop"]
    /\ UNCHANGED Compiled

\* its_loop: one digit; back to the loop with %quot and %prev, or on
ItsLoop ==
    /\ InBlock("loop")
    /\ LET rem == SRem(vm.cur, 10)
           quot == SDiv(vm.cur, 10)
           ch == TruncI8(rem + 48)
           prev == vm.pos - 1
       IN vm' = IF IsZero(quot)
                THEN [StoreByte(vm, vm.pos, ch)
                         EXCEPT !.quot = quot, !.prev = prev, !.block = "finish"]
                ELSE [StoreByte(vm, vm.pos, ch)
                         EXCEPT !.quot = quot, !.prev = prev, !.cur = quot, !.pos = prev]
    /\ UNCHANGED Compiled

\* its_finish: br i1 %isneg
ItsFinish ==
    /\ InBlock("finish")
    /\ vm' = [vm EXCEPT !.block = IF vm.isneg THEN "addneg" ELSE "ret"]
    /\ UNCHANGED Compiled

\* its_addneg: '-' at %prev, ret %buf + %prev
ItsAddneg ==
    /\ InBlock("addneg")
    /\ vm' = [StoreByte(vm, vm.prev, 45) EXCEPT !.status = "returned", !.ret = Some(vm.prev)]
    /\ UNCHANGED Compiled

\* its_ret: ret %buf + %pos
ItsRet ==
    /\ InBlock("ret")
    /\ vm' = [vm EXCEPT !.status = "returned", !.ret = Some(vm.pos)]
    /\ UNCHANGED Compiled

IntToStringNext ==
    \/ ItsEntry
    \/ ItsZero
    \/ ItsNonzero
    \/ ItsLoop
    \/ ItsFinish
    \/ ItsAddneg
    \/ ItsRet

IntToStringSpec == IntToStringInit /\ [][IntToStringNext]_vars

\* the bytes of the decimal representation of x
Representation(x) ==
    (IF x.neg THEN <<45>> ELSE << >>) \o [i \in 1..Len(x.digits) |-> 48 + x.digits[i]]

\* C22: when int_to_string_stack or int_to_string_impl returns on n, the
\* bytes from the returned pointer up to offset 30 are the decimal
\* representation of n (a leading '-' for negatives), offset 31 holds NUL,
\* every byte between an optional '-' and the NUL is in '0'..'9', and no
\* store fell outside offsets 0..31 of the buffer; this for 0, negatives and
\* INT64_MIN too.
IntToStringWritesDecimal ==
    (pc = "run" /\ vm.status = "returned" /\ "ret" \in DOMAIN vm) =>
        LET at == Unwrap(vm.ret)
            text == [i \in 1..(31 - at) |-> vm.buf[at + i]]
        IN /\ at \in 0..30
           /\ Len(Representation(vm.input)) = 31 - at
           /\ text = [i \in 1..(31 - at) |-> Some(Representation(vm.input)[i])]
           /\ vm.buf[32] = Some(0)
           /\ vm.buf[31] \in {Some(d) : d \in 48..57}
           /\ \A i \in (at + 1)..31 :
                 vm.buf[i] \in {Some(d) : d \in 48..57} \/ (i = at + 1 /\ vm.buf[i] = Some(45))
           /\ ~vm.stray

-----------------------------------------------------------------------------
(* The vector runtime @vec_new_impl .. @vec_len_impl (codegen.rs:976-1049) *)
(* on the bump allocator @malloc and the copying @realloc                  *)
(* (codegen.rs:620-664), one call per step.  The heap is the run of i64    *)
(* words above the initial program break; an address is a word index       *)
(* (every size the runtime asks for is a multiple of 8, so the byte loop   *)
(* of realloc copies whole words in ascending order).                      *)

MaxPushes == 5         \* pushes in one run: the capacity grows once
Elements == {0, 1}     \* the values pushed and set

\* malloc(size): the block starts at the heap end, which moves up by the
\* size rounded to 8 bytes; memory fresh from brk reads as zero
Malloc(m, size) ==
    LET words == (size + 7) \div 8
    IN [m EXCEPT !.heap = @ \o [i \in 1..words |-> 0],
                 !.blocks = Append(@, [base |-> Len(m.heap) + 1, words |-> words]),
                 !.ret = Len(m.heap) + 1]

\* the words of the block that starts at ptr
BlockWords(m, ptr) ==
    LET b == CHOOSE x \in Range(m.blocks) : x.base = ptr IN b.words

\* rc_loop / rc_copy: new[i] = ptr[i] for i = k .. n-1, in this order
RECURSIVE CopyWords(_, _, _, _, _)
CopyWords(heap, ptr, new, k, n) ==
    IF k = n THEN heap
    ELSE CopyWords([heap EXCEPT ![new + k] = heap[ptr + k]], ptr, new, k + 1, n)

\* realloc(ptr, size): malloc(size), then size bytes are loaded from ptr
\* on; a load beyond the block of ptr is recorded
Realloc(m, ptr, size) ==
    LET m1 == Malloc(m, size)
    IN [m1 EXCEPT !.heap = CopyWords(m1.heap, ptr, m1.ret, 0, size \div 8),
                  !.outside = m.outside \/ size \div 8 > BlockWords(m, ptr)]

\* vec_new_impl: header of 24 bytes (length 0, capacity 4, data pointer) and
\* a data buffer of 32 bytes
VecNewImpl(m) ==
    LET m1 == Malloc(m, 24)
        hdr == m1.ret
        m2 == Malloc([m1 EXCEPT !.heap[hdr] = 0, !.heap[hdr + 1] = 4], 32)
    IN [m2 EXCEPT !.heap[hdr + 2] = m2.ret, !.vec = hdr, !.ret = hdr]

\* vec_push_impl(vec, val)
VecPushImpl(m, vec, val) ==
    LET vp_len == m.heap[vec]
        vp_cap == m.heap[vec + 1]
        vp_nc == vp_cap * 2
        vp_nb == vp_nc * 8
        grown == LET r == Realloc(m, m.heap[vec + 2], vp_nb)
                 IN [r EXCEPT !.heap[vec + 2] = r.ret, !.heap[vec + 1] = vp_nc]
        m1 == IF vp_len = vp_cap THEN grown ELSE m
    IN [m1 EXCEPT !.heap[m1.heap[vec + 2] + vp_len] = val,
                  !.heap[vec] = vp_len + 1]

\* vec_get_impl(vec, idx)
VecGetImpl(m, vec, idx) == m.heap[m.heap[vec + 2] + idx]

\* vec_set_impl(vec, idx, val)
VecSetImpl(m, vec, idx, val) == [m EXCEPT !.heap[m.heap[vec + 2] + idx] = val]

\* vec_len_impl(vec)
VecLenImpl(m, vec) == m.heap[vec]

\* the process before its first allocation; `stored` and `last` keep what
\* the caller did: the values it stored, by index, and its last call
FreshProcess ==
    [status |-> "vector", heap |-> << >>, blocks |-> << >>, outside |-> FALSE,
     vec |-> 0, ret |-> 0, stored |-> << >>, last |-> [op |-> "new"]]

VecInit ==
    /\ ast = Prefix \o <<FunctionDef("main", << >>,
                            Block(<<LetBinding("v", Call("vec_new", << >>)),
                                    ExpressionStatement(
                                        MethodCall(Identifier("v"), "push", <<Number(1)>>))>>),
                            None)>>
    /\ cg = Generated(ast)
    /\ reachable = CollectReachable(ast)
    /\ item = Len(ast) + 1
    /\ ir = Some(BuildOutput(cg))
    /\ pc = "run"
    /\ drv = NewProcess
    /\ vm = VecNewImpl(FreshProcess)

VecPush ==
    /\ vm.status = "vector"
    /\ Len(vm.stored) < MaxPushes
    /\ \E val \in Elements :
          vm' = [VecPushImpl(vm, vm.vec, val)
                    EXCEPT !.stored = Append(vm.stored, val),
                           !.last = [op |-> "push", len |-> VecLenImpl(vm, vm.vec),
                                     cap |-> vm.heap[vm.vec + 1]]]
    /\ UNCHANGED Compiled

\* a set within the length
VecSet ==
    /\ vm.status = "vector"
    /\ \E idx \in 0..(VecLenImpl(vm, vm.vec) - 1), val \in Elements :
          vm' = [VecSetImpl(vm, vm.vec, idx, val)
                    EXCEPT !.stored[idx + 1] = val,
                           !.last = [op |-> "set"]]
    /\ UNCHANGED Compiled

\* a get within the length
VecGet ==
    /\ vm.status = "vector"
    /\ \E idx \in 0..(VecLenImpl(vm, vm.vec) - 1) :
          vm' = [vm EXCEPT !.last = [op |-> "get", idx |-> idx,
                                     val |-> VecGetImpl(vm, vm.vec, idx)]]
    /\ UNCHANGED Compiled

VecNext ==
    \/ VecPush
    \/ VecSet
    \/ VecGet

VecSpec == VecInit /\ [][VecNext]_vars

RECURSIVE IsPowerOfTwo(_)
IsPowerOfTwo(k) == k = 1 \/ (k > 1 /\ k % 2 = 0 /\ IsPowerOfTwo(k \div 2))

\* C23: after vec_new and any pushes and in-range sets, the length is the
\* number of pushes and lies in 0..capacity, the capacity is 4 times a power
\* of two and has doubled exactly when the last push found the vector full,
\* the data buffer holds capacity * 8 bytes, get(i) for i < length returns
\* the value most recently stored at i, and growth has loaded only bytes of
\* the old buffer.
VectorKeepsItsElements ==
    (pc = "run" /\ vm.status = "vector") =>
        LET len == VecLenImpl(vm, vm.vec)
            cap == vm.heap[vm.vec + 1]
            data == vm.heap[vm.vec + 2]
        IN /\ len = Len(vm.stored)
           /\ 0 <= len /\ len <= cap
           /\ cap % 4 = 0 /\ IsPowerOfTwo(cap \div 4)
           /\ vm.last.op = "push" =>
                 cap = IF vm.last.len = vm.last.cap THEN 2 * vm.last.cap ELSE vm.last.cap
           /\ BlockWords(vm, data) * 8 = cap * 8
           /\ \A i \in 0..(len - 1) : VecGetImpl(vm, vm.vec, i) = vm.stored[i + 1]
           /\ vm.last.op = "get" => vm.last.val = vm.stored[vm.last.idx + 1]
           /\ ~vm.outside

\* the body of the loop executes continue
Continues(loop) == \E n \in Descendants(loop.body) : n.k = "Continue"

\* C24: in the code emitted for a for loop over a..b whose body executes
\* continue, the induction variable advances before the next bound test, so
\* the body (which prints v first) is executed at most max(0, b-a) times.
ContinueAdvancesInduction ==
    (pc = "run" /\ Subject.k = "For" /\ Continues(Subject)) =>
        Len(vm.out) <= Len(RangeOf(Subject))

\* C25: in the emitted module every function gen_function emitted has a
\* terminator (ret, br, unreachable) as the line before its closing brace:
\* main and void functions get the implicit ret whenever the body can fall
\* through, a for loop with break, continue or return in its body as last
\* statement included, and no other function is emitted without a ret.
FunctionsEndInTerminator ==
    \A f \in Functions(Module) : Module[f[2] - 1].op \in Terminators

\* the prelude functions that return the pointer malloc gave them
BaseCallees == {"malloc", "vec_new_impl", "read_file_impl"}

\* the registers of `body` that hold a pointer malloc returned: the result
\* of such a call, its copies through slots and casts, and the data pointer
\* read from offset 16 of a vector header
MallocBases(body) ==
    LET Results(callees) ==
            DerivedFrom(body, { body[i].def :
                                   i \in { j \in DOMAIN body :
                                              body[j].op = "call" /\ body[j].def # ""
                                              /\ body[j].args[2] \in callees } })
        fields == { body[i].def :
                       i \in { j \in DOMAIN body :
                                  body[j].op = "getelementptr"
                                  /\ body[j].args[2] \in Results({"vec_new_impl"})
                                  /\ body[j].args[3] = "16" } }
        casts == { body[i].def :
                      i \in { j \in DOMAIN body :
                                 body[j].op = "bitcast" /\ body[j].args[2] \in fields } }
        datas == { body[i].def :
                      i \in { j \in DOMAIN body :
                                 body[j].op = "load" /\ body[j].args[2] \in casts } }
    IN Results(BaseCallees) \cup datas

\* C26: in every function of the emitted module, every pointer block cleanup
\* or concatenation cleanup passes to free is the pointer a malloc call
\* returned: not an interior pointer such as the result of int_to_string_impl
\* (which points at the first character written inside its buffer), not a
\* stack address.
FreesTakeMallocBases ==
    \A f \in Functions(Module) :
        LET body == BodyOf(Module, f)
            bases == MallocBases(body)
        IN \A i \in DOMAIN body :
              (IsFree(body[i]) /\ body[i].site \in {"Block", "BinaryOp"})
                 => body[i].args[3] \in bases

\* the user functions of the program, by name
UserFunctions == { n \in Range(ast) : n.k = "FunctionDef" }

\* the body of f performs a side effect itself: a print, file I/O or a
\* vector mutation, as a call or as a method call
HasEffect(f) ==
    \E n \in Descendants(f.body) :
        \/ n.k = "Call" /\ n.name \in ImpureBuiltins
        \/ n.k = "MethodCall" /\ n.method \in MutatingMethods

\* the user functions that the functions of S call, at any depth of calls
RECURSIVE CalledThrough(_)
CalledThrough(S) ==
    LET names == UNION {{ n.name : n \in { d \in Descendants(f.body) : d.k = "Call" } } : f \in S}
        more == S \cup { f \in UserFunctions : f.name \in names }
    IN IF more = S THEN S ELSE CalledThrough(more)

\* C27: in the emitted module a function defined with the attributes
\* `nounwind readonly willreturn` reaches no side effect: neither it nor any
\* user function it calls, directly or through user functions, prints, does
\* file I/O or mutates a vector, and every user function it calls is itself
\* classified pure.
ReadonlyReachesNoEffect ==
    \A i \in DOMAIN Module :
        (Module[i].op = "define" /\ Module[i].site = "gen_function"
         /\ Module[i].args[2] = "nounwind readonly willreturn") =>
            \A f \in { x \in UserFunctions : MangleFn(x.name) = Module[i].def } :
                \A callee \in CalledThrough({f}) :
                    /\ ~HasEffect(callee)
                    /\ callee.name \in cg.pure_functions

\* C28: once a function is lowered, the k-th of its instructions that
\* defines a numbered temporary defines %k, counting from 0: the temporaries
\* appear in the text in increasing order without gaps, on every lowering
\* path, heap-allocated struct initializers included.
TemporariesInTextOrder ==
    JustLowered =>
        LET body == LoweredBody
            numbered == { "%" \o ToString(n) : n \in 0..cg.temp_counter }
            IsNumbered(l) == l.def \in numbered
            defs == SelectSeq(body, IsNumbered)
        IN \A k \in DOMAIN defs : defs[k].def = "%" \o ToString(k - 1)

-----------------------------------------------------------------------------
(* Import resolution (module.rs): resolve_imports over the items of the    *)
(* input file, ModuleCache::import and the recursive load_module, run with *)
(* an explicit call stack.  The files on disk are the input file "main"    *)
(* and the modules of ModuleNames; what a file imports is drawn at start.  *)
(* Reading, lexing and parsing a module, and canonicalising a path, can    *)
(* fail.                                                                   *)

MaxImports == 4        \* import statements in all files together

ModuleNames == {"a", "b", "c"}

ImportNode(path, names) == [k |-> "Import", path |-> path, names |-> names]

\* the definition every module holds and exports, named after the module,
\* and the two definitions of the input file
Definition(file, name, is_exported) ==
    [k |-> "FunctionDef", name |-> name, is_exported |-> is_exported, file |-> file]

\* an import names the definition of the module; an import of c may name
\* one that c does not export
ImportChoices ==
    {ImportNode(m, <<m>>) : m \in ModuleNames} \cup {ImportNode("c", <<"hidden">>)}

RECURSIVE ImportSeqs(_)
ImportSeqs(n) ==
    IF n = 0 THEN {<< >>}
    ELSE {<<i>> \o rest : i \in ImportChoices, rest \in ImportSeqs(n - 1)}

\* the items of a file: the input file has a definition before its imports
\* and main after them, a module its imports and then its definition
Items(file, imports) ==
    IF file = "main"
    THEN <<Definition("main", "first", FALSE)>> \o imports
            \o <<Definition("main", "main", FALSE)>>
    ELSE imports \o <<Definition(file, file, TRUE)>>

\* the disk: the items of the input file and of each module
FileSystem(in_main, in_a, in_b, in_c) ==
    [f \in {"main"} \cup ModuleNames |->
        Items(f, CASE f = "main" -> in_main [] f = "a" -> in_a
                   [] f = "b" -> in_b [] OTHER -> in_c)]

\* ModuleExports (module.rs:7-10)
ModuleExports(exported_names, all_definitions) ==
    [exported_names |-> exported_names, all_definitions |-> all_definitions]

\* ModuleCache::new (module.rs:18-23), with the disk and the resolve_imports
\* loop around it: `node` is the item the loop is at, `pending` the import
\* whose load_module call has not returned, `stack` the load_module calls in
\* progress, `parsed` how often each file went through the lexer and parser,
\* `steps` the steps taken so far
NewModuleCache(files) ==
    [status |-> "resolving", message |-> "", files |-> files,
     node |-> 1, resolved |-> << >>, pending |-> None,
     cache |-> EmptyMap, currently_loading |-> {}, stack |-> << >>,
     parsed |-> [m \in ModuleNames |-> 0], steps |-> 0]

ModuleInit ==
    /\ \E n_main \in 0..MaxImports : \E in_main \in ImportSeqs(n_main) :
       \E n_a \in 0..(MaxImports - n_main) : \E in_a \in ImportSeqs(n_a) :
       \E n_b \in 0..(MaxImports - n_main - n_a) : \E in_b \in ImportSeqs(n_b) :
       \E n_c \in 0..(MaxImports - n_main - n_a - n_b) : \E in_c \in ImportSeqs(n_c) :
          /\ ast = Items("main", in_main)
          /\ vm = NewModuleCache(FileSystem(in_main, in_a, in_b, in_c))
    /\ cg = NewCodeGenerator
    /\ reachable = {}
    /\ item = 0
    /\ ir = None
    /\ pc = "imports"
    /\ drv = NewProcess

\* an Err travels up through every `?` to compile_file, which prints it and
\* exits with code 1 (main.rs:77-83)
ImportError(m, message) ==
    /\ vm' = [m EXCEPT !.status = "err", !.message = message]
    /\ drv' = [drv EXCEPT !.stderr = message, !.exit_code = Some(1)]
    /\ pc' = "exit"
    /\ UNCHANGED <<ast, cg, reachable, item, ir>>

ImportStep(m) ==
    /\ vm' = [m EXCEPT !.steps = @ + 1]
    /\ UNCHANGED Compiled

\* the names of `names` the module does not export
NotExported(exports, names) ==
    { names[i] : i \in { j \in DOMAIN names : names[j] \notin exports.exported_names } }

\* import, from the cache lookup on (module.rs:37-51): the access check, then
\* the definitions of the module are appended to the resolved items
ImportFromCache(m, imp) ==
    LET exports == m.cache[imp.path]
    IN IF NotExported(exports, imp.names) # {}
       THEN ImportError(m, "is not exported")
       ELSE ImportStep([m EXCEPT !.resolved = @ \o exports.all_definitions,
                                 !.node = @ + 1, !.pending = None])

\* a load_module call about to start
Frame(path) == [path |-> path, phase |-> "enter", deps |-> << >>, i |-> 1]

Resolving == pc = "imports" /\ vm.status = "resolving"

\* resolve_imports, one item of the input file (module.rs:190-198); for an
\* import, `import` up to its call of load_module (module.rs:31-35)
ResolveItem ==
    /\ Resolving
    /\ vm.stack = << >> /\ vm.pending = None
    /\ vm.node <= Len(ast)
    /\ LET node == ast[vm.node]
       IN IF node.k # "Import"
          THEN ImportStep([vm EXCEPT !.resolved = Append(@, node), !.node = @ + 1])
          ELSE \E found \in BOOLEAN :
                  IF ~found THEN ImportError(vm, "cannot find module")
                  ELSE IF ContainsKey(vm.cache, node.path)
                  THEN ImportFromCache(vm, node)
                  ELSE ImportStep([vm EXCEPT !.pending = Some(node),
                                             !.stack = <<Frame(node.path)>>])

\* load_module returned Ok to import (module.rs:35-51)
ImportReturn ==
    /\ Resolving
    /\ vm.stack = << >> /\ vm.pending # None
    /\ ImportFromCache(vm, Unwrap(vm.pending))

\* the loop is through: Ok(AstNode::Program(resolved)) (module.rs:199)
ResolveDone ==
    /\ Resolving
    /\ vm.stack = << >> /\ vm.pending = None
    /\ vm.node > Len(ast)
    /\ vm' = [vm EXCEPT !.status = "ok", !.steps = @ + 1]
    /\ ast' = vm.resolved
    /\ pc' = "semantic"
    /\ UNCHANGED <<cg, reachable, item, ir, drv>>

Top == vm.stack[Len(vm.stack)]

InPhase(phase) == Resolving /\ vm.stack # << >> /\ Top.phase = phase

\* the check load_module begins with (module.rs:70)
AlreadyLoadingNever(m, canonical_path) == FALSE

AlreadyLoading(m, canonical_path) == canonical_path \in m.currently_loading

LoadOutcomes == {"ok", "cannot read module", "Lex error", "Parse error"}

\* the imports among the items of a file
ImportsOf(items) ==
    LET IsImport(n) == n.k = "Import" IN SelectSeq(items, IsImport)

\* its other items
DefinitionsOf(items) ==
    LET IsDefinition(n) == n.k # "Import" IN SelectSeq(items, IsDefinition)

\* load_module from its entry to the list of transitive imports
\* (module.rs:69-99)
LoadEnter ==
    /\ InPhase("enter")
    /\ IF AlreadyLoading(vm, Top.path)
       THEN ImportError(vm, "circular import detected")
       ELSE \E outcome \in LoadOutcomes, found \in BOOLEAN :
               LET loading == [vm EXCEPT !.currently_loading = @ \cup {Top.path}]
                   parsing == [loading EXCEPT !.parsed[Top.path] = @ + 1]
                   imports == ImportsOf(vm.files[Top.path])
               IN IF outcome = "cannot read module" THEN ImportError(loading, outcome)
                  ELSE IF outcome # "ok" THEN ImportError(parsing, outcome)
                  ELSE IF imports # << >> /\ ~found
                  THEN ImportError(parsing, "cannot find module")
                  ELSE ImportStep([parsing EXCEPT
                                      !.stack[Len(vm.stack)].phase = "deps",
                                      !.stack[Len(vm.stack)].deps = imports])

\* the loop that loads what is not cached (module.rs:101-105), one
\* dependency per step; the call of load_module is a new frame
LoadDependency ==
    /\ InPhase("deps")
    /\ Top.i <= Len(Top.deps)
    /\ LET dep == Top.deps[Top.i].path
           next == [vm EXCEPT !.stack[Len(vm.stack)].i = @ + 1]
       IN IF ContainsKey(vm.cache, dep)
          THEN ImportStep(next)
          ELSE ImportStep([next EXCEPT !.stack = Append(@, Frame(dep))])

\* all_definitions of the module: those of its imports in order, then its
\* own items (module.rs:107-154)
RECURSIVE AllDefinitions(_, _, _)
AllDefinitions(cache, deps, own) ==
    IF deps = << >> THEN own
    ELSE (IF ContainsKey(cache, Head(deps).path)
          THEN cache[Head(deps).path].all_definitions ELSE << >>)
         \o AllDefinitions(cache, Tail(deps), own)

\* the rest of load_module: access checks, exports, the cache entry
\* (module.rs:107-166)
LoadFinish ==
    /\ InPhase("deps")
    /\ Top.i > Len(Top.deps)
    /\ LET denied == { j \in DOMAIN Top.deps :
                          /\ ContainsKey(vm.cache, Top.deps[j].path)
                          /\ NotExported(vm.cache[Top.deps[j].path], Top.deps[j].names) # {} }
           own == DefinitionsOf(vm.files[Top.path])
           exported_names == { own[j].name : j \in { x \in DOMAIN own : own[x].is_exported } }
       IN IF denied # {}
          THEN ImportError(vm, "is not exported")
          ELSE ImportStep([vm EXCEPT
                  !.currently_loading = @ \ {Top.path},
                  !.cache = Insert(@, Top.path,
                                   ModuleExports(exported_names,
                                                 AllDefinitions(vm.cache, Top.deps, own))),
                  !.stack = SubSeq(@, 1, Len(@) - 1)])

ModuleNext ==
    \/ ResolveItem
    \/ ImportReturn
    \/ ResolveDone
    \/ LoadEnter
    \/ LoadDependency
    \/ LoadFinish

ModuleSpec == ModuleInit /\ [][ModuleNext]_vars

\* the modules a file imports, and those it reaches through imports
Imported(files, f) == { n.path : n \in Range(ImportsOf(files[f])) }

RECURSIVE ReachedFrom(_, _)
ReachedFrom(files, S) ==
    LET more == S \cup UNION { Imported(files, f) : f \in S }
    IN IF more = S THEN S ELSE ReachedFrom(files, more)

ImportsItself(files, f) == f \in ReachedFrom(files, Imported(files, f))

\* the steps resolving can take when every module is loaded once: one per
\* item of the input file, one more per import of it for the return of
\* load_module, the last one, and for each module its entry, one per import
\* and its finish
RECURSIVE LoadSteps(_, _)
LoadSteps(files, S) ==
    IF S = {} THEN 0
    ELSE LET f == CHOOSE x \in S : TRUE
         IN Len(ImportsOf(files[f])) + 2 + LoadSteps(files, S \ {f})

StepBound(files) ==
    Len(files["main"]) + Len(ImportsOf(files["main"])) + 1 + LoadSteps(files, ModuleNames)

\* C29: loading terminates and is cycle-safe: resolving takes a bounded
\* number of steps and is never stuck before it returns, no file goes through the
\* lexer and parser twice and the load_module calls in progress that are
\* past their entry check are for distinct files, with at most one call at
\* its entry (so the recursion is no deeper than there are modules, plus one);
\* the 'circular import detected' error is raised only when a module that
\* is being loaded imports itself, directly or through others, and
\* resolve_imports never succeeds with such a module loaded; and
\* currently_loading is empty whenever import has returned Ok.
ModuleLoadingTerminates ==
    ("parsed" \in DOMAIN vm) =>
        /\ vm.steps <= StepBound(vm.files)
        /\ Resolving => ENABLED ModuleNext
        /\ \A f \in ModuleNames : vm.parsed[f] <= 1
        /\ \A i, j \in DOMAIN vm.stack :
               (i # j /\ vm.stack[i].phase = "deps" /\ vm.stack[j].phase = "deps")
                  => vm.stack[i].path # vm.stack[j].path
        /\ \A i \in DOMAIN vm.stack : vm.stack[i].phase = "enter" => i = Len(vm.stack)
        /\ (vm.status = "err" /\ vm.message = "circular import detected") =>
               /\ vm.stack # << >>
               /\ ImportsItself(vm.files, vm.stack[Len(vm.stack)].path)
        /\ vm.status = "ok" =>
               \A f \in DOMAIN vm.cache : ~ImportsItself(vm.files, f)
        /\ (vm.status # "err" /\ vm.stack = << >>) => vm.currently_loading = {}
        /\ \A f \in DOMAIN vm.cache : vm.parsed[f] = 1 /\ f \notin vm.currently_loading

\* a module that imports itself through another one was rejected
CircularImportRejected ==
    /\ "parsed" \in DOMAIN vm
    /\ vm.status = "err" /\ vm.message = "circular import detected"
    /\ Cardinality(vm.currently_loading) >= 2

\* C30: when resolve_imports has succeeded, every definition of every
\* loaded module appears at most once among the items of the resulting
\* Program, diamond imports and repeated imports included, and the items of
\* the input file that are not imports are in it in their order.
ResolvedProgramHasNoDuplicates ==
    ("parsed" \in DOMAIN vm /\ vm.status = "ok") =>
        /\ \A i, j \in DOMAIN ast : i # j => ast[i] # ast[j]
        /\ LET IsOwn(n) == n.file = "main"
           IN SelectSeq(ast, IsOwn) = DefinitionsOf(vm.files["main"])

====
